---- MODULE Spec2Model ----
(***************************************************************************)
(* A model of the cleanmypc cleanup engine: the dry-run aware deletion     *)
(* primitives and glob discovery of BaseCleaner, the temp, cache, browser  *)
(* and trash cleaners, the downloads organizer, the large-file finder and  *)
(* the CleanupManager that sequences them.                                 *)
(*                                                                         *)
(* Strings are sequences of tokens.  A token stands for a run of           *)
(* characters that no operation of the program splits ("tmp", "photo");    *)
(* the characters the program does look at are tokens of their own:        *)
(* "/" and "\\" (separators), "." (extension and hidden-file marker) and   *)
(* "*" (glob wildcard).  So "/tmp/a.tmp" is <<"/","tmp","/","a",".","tmp">>*)
(* and the glob "**" is <<"*","*">>.                                       *)
(***************************************************************************)
EXTENDS Integers, Sequences, FiniteSets, TLC

\* ------------------------------------------------------------------ strings

Slash == "/"
BackSlash == "\\"
Star == "*"
Dot == "."

\* String.prototype.startsWith
StartsWith(s, pre) == Len(pre) <= Len(s) /\ SubSeq(s, 1, Len(pre)) = pre

\* String.prototype.includes: sub occurs in s as a contiguous substring.
Includes(s, sub) ==
  \E i \in 0..(Len(s) - Len(sub)) : SubSeq(s, i + 1, i + Len(sub)) = sub

\* The function f on 1..n as the sequence of its values.
Listed(f, n) == SubSeq(f, 1, n)

\* String.prototype.replace(/x/g, y) for a one-character x.
ReplaceAll(s, x, y) == Listed([i \in 1..Len(s) |-> IF s[i] = x THEN y ELSE s[i]], Len(s))

\* The positions of token x in s, in ascending order.
Positions(s, x) == SelectSeq([i \in 1..Len(s) |-> i], LAMBDA i : s[i] = x)

\* Where the k-th of the segments that the separators at positions seps cut
\* s into ends: at its separator, or past the end of s (0 for k = 0).
SegmentEnd(s, seps, k) ==
  IF k = 0 THEN 0 ELSE IF k > Len(seps) THEN Len(s) + 1 ELSE seps[k]

Segments(s, seps) ==
  Listed([k \in 1..(Len(seps) + 1) |->
            SubSeq(s, SegmentEnd(s, seps, k - 1) + 1, SegmentEnd(s, seps, k) - 1)],
         Len(seps) + 1)

\* String.prototype.split(sep): the segments of s between separators.
Split(s, sep) == Segments(s, Positions(s, sep))

\* The tokens of a sequence of [tok, keep] records.
Tokens(marked) == Listed([k \in 1..Len(marked) |-> marked[k].tok], Len(marked))

\* The tokens of a sequence of [tok, keep] records that are kept.
Kept(marked) == Tokens(SelectSeq(marked, LAMBDA e : e.keep))

\* The last position of token x in s, 0 when there is none.
LastIndexOf(s, x) ==
  IF \A i \in 1..Len(s) : s[i] # x THEN 0
  ELSE CHOOSE i \in 1..Len(s) : s[i] = x /\ \A j \in (i + 1)..Len(s) : s[j] # x

\* Lower-casing, on the tokens of the model that have an upper-case form.
LowerToken(t) ==
  CASE t = "JPG" -> "jpg"
    [] t = "PDF" -> "pdf"
    [] t = "C:" -> "c:"
    [] t = "Windows" -> "windows"
    [] t = "Users" -> "users"
    [] t = "Program Files" -> "program files"
    [] t = "Program Files (x86)" -> "program files (x86)"
    [] t = "ProgramData" -> "programdata"
    [] t = "AppData" -> "appdata"
    [] t = "Local" -> "local"
    [] t = "Documents" -> "documents"
    [] t = "Downloads" -> "downloads"
    [] OTHER -> t

\* String.prototype.toLowerCase
ToLowerCase(s) == Listed([i \in 1..Len(s) |-> LowerToken(s[i])], Len(s))

\* ------------------------------------------------------------ node's path

OSTypes == {"windows", "macos", "linux"}

\* path.sep of the platform's path module.
PathSep(os) == IF os = "windows" THEN BackSlash ELSE Slash

\* Whether token t separates path segments for the platform's path module
\* and filesystem calls: win32 accepts both separators, posix only "/".
IsSep(os, t) == t = Slash \/ (os = "windows" /\ t = BackSlash)

\* path.normalize: runs of separators become one platform separator (of a
\* run only the last separator is kept, and written as the platform's).
CollapseSeps(os, s) ==
  Kept([i \in 1..Len(s) |->
          [tok |-> IF IsSep(os, s[i]) THEN PathSep(os) ELSE s[i],
           keep |-> ~(IsSep(os, s[i]) /\ i < Len(s) /\ IsSep(os, s[i + 1]))]])

RECURSIVE JoinRaw(_, _)
JoinRaw(os, parts) ==
  IF parts = <<>> THEN <<>>
  ELSE IF Head(parts) = <<>> THEN JoinRaw(os, Tail(parts))
  ELSE LET rest == JoinRaw(os, Tail(parts))
       IN IF rest = <<>> THEN Head(parts)
          ELSE Head(parts) \o <<PathSep(os)>> \o rest

\* path.join(...parts): the non-empty parts joined by the platform separator
\* and normalized (on win32 every "/" becomes "\\").
PathJoin(os, parts) == CollapseSeps(os, JoinRaw(os, parts))

LastSepIndex(os, s) ==
  IF \A i \in 1..Len(s) : ~IsSep(os, s[i]) THEN 0
  ELSE CHOOSE i \in 1..Len(s) :
         IsSep(os, s[i]) /\ \A j \in (i + 1)..Len(s) : ~IsSep(os, s[j])

\* path.basename(p)
Basename(os, p) == SubSeq(p, LastSepIndex(os, p) + 1, Len(p))

\* path.extname(name): from the last "." to the end; empty when there is no
\* "." or the only "." is the first character.
ExtName(name) ==
  LET i == LastIndexOf(name, Dot)
  IN IF i <= 1 THEN <<>> ELSE SubSeq(name, i, Len(name))

\* path.parse(name).name
ParseName(name) == SubSeq(name, 1, Len(name) - Len(ExtName(name)))

\* The form under which the filesystem knows a path: forward slashes.  On
\* win32 both separators name the same file; on posix "\\" is an ordinary
\* character of a name.
Canon(os, p) == IF os = "windows" THEN ReplaceAll(p, BackSlash, Slash) ELSE p

\* --------------------------------------------------------------- fast-glob

\* A star the pattern escaped with a backslash: it matches a literal "*" only.
LiteralStar == "\\*"

\* The backslash at position i of pat escapes what follows it: it is not
\* itself escaped, that is, the run of backslashes up to it has odd length.
Escapes(pat, i) ==
  /\ pat[i] = BackSlash
  /\ \E r \in 1..i :
       /\ (i - r) % 2 = 0
       /\ \A j \in r..i : pat[j] = BackSlash
       /\ (r = 1 \/ pat[r - 1] # BackSlash)

\* In a glob pattern a backslash escapes the character after it (it is no
\* separator): the backslash goes and the character is taken literally, an
\* escaped "*" as a literal star.
Unescape(pat) ==
  Kept([i \in 1..Len(pat) |->
          [tok |-> IF i > 1 /\ Escapes(pat, i - 1) /\ pat[i] = Star
                   THEN LiteralStar ELSE pat[i],
           keep |-> ~Escapes(pat, i)]])

GlobStar == <<Star, Star>>

IsDynamic(seg) == \E i \in 1..Len(seg) : seg[i] = Star

RECURSIVE TokMatch(_, _)
\* A pattern segment against a name: "*" matches any run of characters.
TokMatch(pat, name) ==
  IF pat = <<>> THEN name = <<>>
  ELSE IF Head(pat) = Star
       THEN TokMatch(Tail(pat), name) \/ (name # <<>> /\ TokMatch(pat, Tail(name)))
  ELSE name # <<>> /\ Head(name) = Head(pat) /\ TokMatch(Tail(pat), Tail(name))

Hidden(name) == name # <<>> /\ Head(name) = Dot

\* One segment: a wildcard matches no empty name and, unless dot is set, no
\* leading "." of a name.
NameMatch(pat, name, dot) ==
  /\ (name = <<>>) => (pat = <<>>)
  /\ (Hidden(name) /\ ~dot) => (pat # <<>> /\ Head(pat) = Dot)
  /\ TokMatch(pat, name)

RECURSIVE SegsMatch(_, _, _)
\* Pattern segments against path segments: a "**" segment matches zero or
\* more whole segments (hidden ones only when dot is set).
SegsMatch(ps, ns, dot) ==
  IF ps = <<>> THEN ns = <<>>
  ELSE IF Head(ps) = GlobStar
       THEN \/ SegsMatch(Tail(ps), ns, dot)
            \/ /\ ns # <<>>
               /\ Head(ns) # <<>>
               /\ (dot \/ ~Hidden(Head(ns)))
               /\ SegsMatch(ps, Tail(ns), dot)
  ELSE /\ ns # <<>>
       /\ NameMatch(Head(ps), Head(ns), dot)
       /\ SegsMatch(Tail(ps), Tail(ns), dot)

\* The first of the positions, n when there is none.
FirstOr(positions, n) == IF positions = <<>> THEN n ELSE positions[1]

\* The number of segments before the first dynamic one.
StaticPrefixLen(segs) ==
  FirstOr(SelectSeq([i \in 1..Len(segs) |-> i], LAMBDA i : IsDynamic(segs[i])),
          Len(segs) + 1) - 1

\* The b leading segments of the pattern are static: they match the path's
\* leading segments when they are the same; the rest is matched segment by
\* segment.
SegsMatchFrom(ps, ns, b, dot) ==
  /\ Len(ns) >= b
  /\ SubSeq(ns, 1, b) = SubSeq(ps, 1, b)
  /\ SegsMatch(SubSeq(ps, b + 1, Len(ps)), SubSeq(ns, b + 1, Len(ns)), dot)

\* micromatch: the whole path against the whole pattern.
GlobMatch(pat, p, dot) ==
  SegsMatchFrom(Split(Unescape(pat), Slash), Split(p, Slash),
                StaticPrefixLen(Split(Unescape(pat), Slash)), dot)

\* A directory entry is also tried with a trailing slash, so that "dir/*/"
\* finds directories.
EntryMatch(pat, p, isDir, dot) ==
  \/ GlobMatch(pat, p, dot)
  \/ (isDir /\ GlobMatch(pat, p \o <<Slash>>, dot))

\* The number of leading segments of the pattern's base directory, the
\* directory the walk starts from (itself never filtered).
BaseLen(pat) ==
  LET segs == Split(Unescape(pat), Slash)
      n == StaticPrefixLen(segs)
  IN IF n = Len(segs) THEN n - 1 ELSE n

\* The number of segments of p.
Depth(p) == Len(Positions(p, Slash)) + 1

\* The first n segments of p, joined as they are in p.
JoinSegs(p, n) == SubSeq(p, 1, SegmentEnd(p, Positions(p, Slash), n) - 1)

\* The entry p, or a directory on the walk from the base down to p, matches
\* an ignore pattern (ignore patterns are matched with dot set).
Ignored(p, isDir, base, ignore) ==
  \E n \in (base + 1)..Depth(p) : \E i \in 1..Len(ignore) :
    EntryMatch(ignore[i], JoinSegs(p, n), n < Depth(p) \/ isDir, TRUE)

\* -------------------------------------------------------------- filesystem
\* A filesystem is a function from the canonical paths that exist to their
\* entries: kind ("file" or "dir"), size in bytes, age (now - mtime, in
\* milliseconds), and what the platform allows: readable (stat and readdir
\* succeed), writable (access W_OK succeeds), removable (unlink succeeds).

IsUnder(p, d) == Len(p) > Len(d) + 1 /\ StartsWith(p, d \o <<Slash>>)

IsChild(p, d) ==
  /\ IsUnder(p, d)
  /\ \A i \in (Len(d) + 2)..Len(p) : p[i] # Slash

Children(fs, d) == {p \in DOMAIN fs : IsChild(p, d)}

IsDir(fs, p) == p \in DOMAIN fs /\ fs[p].kind = "dir"

\* fs.remove(p): p and everything below it goes (rm -rf); a path that does
\* not exist is no error.
RemoveTree(fs, p) ==
  [q \in {r \in DOMAIN fs : r # p /\ ~IsUnder(r, p)} |-> fs[q]]

\* fs.remove fails when p, or an entry below it, cannot be unlinked.
CanRemove(fs, p) ==
  \A q \in DOMAIN fs : (q = p \/ IsUnder(q, p)) => fs[q].removable

\* fs.stat(p) succeeds.
CanStat(fs, p) == p \in DOMAIN fs /\ fs[p].readable

RECURSIVE SetToSeq(_)
\* The entries of a walk in the order the walk reports them: a directory
\* before what it contains.
SetToSeq(S) ==
  IF S = {} THEN <<>>
  ELSE LET top == {p \in S : \A q \in S : Depth(p) <= Depth(q)}
           x == CHOOSE p \in top : TRUE
       IN <<x>> \o SetToSeq(S \ {x})

RECURSIVE SumSizes(_, _)
SumSizes(fs, S) ==
  IF S = {} THEN 0
  ELSE LET x == CHOOSE p \in S : TRUE
       IN fs[x].size + SumSizes(fs, S \ {x})

\* ------------------------------------------------------------- BaseCleaner

MsPerDay == 86400000

ErrorMsg(what, p, cause) == [what |-> what, path |-> p, cause |-> cause]

\* BaseCleaner.getFileSize: the size stat reports, 0 when stat fails.
GetFileSize(fs, os, filePath) ==
  LET p == Canon(os, filePath)
  IN IF CanStat(fs, p) THEN fs[p].size ELSE 0

\* Why fs.access(W_OK) followed by fs.remove fails on p, "" when it does not.
DeleteFailure(fs, p) ==
  IF p \notin DOMAIN fs THEN "ENOENT"
  ELSE IF ~fs[p].writable THEN "EACCES"
  ELSE IF ~CanRemove(fs, p) THEN "EPERM"
  ELSE ""

\* deleteFile without its dryRun test: the write access is checked and the
\* file removed on a dry run too.
DeleteFileAlways(fs, os, dry, filePath) ==
  LET p == Canon(os, filePath)
      size == GetFileSize(fs, os, filePath)
      cause == DeleteFailure(fs, p)
  IN IF cause = ""
     THEN [deleted |-> TRUE, size |-> size, fs |-> RemoveTree(fs, p),
           errors |-> <<>>, raised |-> FALSE]
     ELSE [deleted |-> FALSE, size |-> 0, fs |-> fs,
           errors |-> <<ErrorMsg("Failed to delete", filePath, cause)>>,
           raised |-> FALSE]

\* deleteFile without its try/catch: a failure goes to the caller.
DeleteFileRaising(fs, os, dry, filePath) ==
  LET p == Canon(os, filePath)
      size == GetFileSize(fs, os, filePath)
      cause == IF dry THEN "" ELSE DeleteFailure(fs, p)
  IN IF cause = ""
     THEN [deleted |-> TRUE, size |-> size,
           fs |-> IF dry THEN fs ELSE RemoveTree(fs, p),
           errors |-> <<>>, raised |-> FALSE]
     ELSE [deleted |-> FALSE, size |-> 0, fs |-> fs, errors |-> <<>>, raised |-> TRUE]

\* deleteFile with the size read after the removal instead of before it.
DeleteFileSizeAfter(fs, os, dry, filePath) ==
  LET p == Canon(os, filePath)
      cause == IF dry THEN "" ELSE DeleteFailure(fs, p)
      after == IF dry THEN fs ELSE RemoveTree(fs, p)
  IN IF cause = ""
     THEN [deleted |-> TRUE, size |-> GetFileSize(after, os, filePath),
           fs |-> after, errors |-> <<>>, raised |-> FALSE]
     ELSE [deleted |-> FALSE, size |-> 0, fs |-> fs,
           errors |-> <<ErrorMsg("Failed to delete", filePath, cause)>>,
           raised |-> FALSE]

\* BaseCleaner.deleteFile: the size is read first; a live run checks write
\* access and removes; any failure is caught, recorded and answered with
\* deleted = false, size = 0.  raised: an exception reaches the caller.
DeleteFile(fs, os, dry, filePath) ==
  LET p == Canon(os, filePath)
      size == GetFileSize(fs, os, filePath)
      cause == IF dry THEN "" ELSE DeleteFailure(fs, p)
  IN IF cause = ""
     THEN [deleted |-> TRUE, size |-> size,
           fs |-> IF dry THEN fs ELSE RemoveTree(fs, p),
           errors |-> <<>>, raised |-> FALSE]
     ELSE [deleted |-> FALSE, size |-> 0, fs |-> fs,
           errors |-> <<ErrorMsg("Failed to delete", filePath, cause)>>,
           raised |-> FALSE]

RECURSIVE GetDirectorySize(_, _)
\* BaseCleaner.getDirectorySize: the sizes of the files below dirPath; a
\* readdir or stat that fails makes the level it happens on count 0.
GetDirectorySize(fs, p) ==
  IF ~IsDir(fs, p) \/ ~fs[p].readable THEN 0
  ELSE LET items == Children(fs, p)
       IN IF \E q \in items : ~fs[q].readable THEN 0
          ELSE LET sizeOf(q) == IF fs[q].kind = "dir"
                                THEN GetDirectorySize(fs, q) ELSE fs[q].size
                   F[S \in SUBSET items] ==
                     IF S = {} THEN 0
                     ELSE LET x == CHOOSE q \in S : TRUE
                          IN sizeOf(x) + F[S \ {x}]
               IN F[items]

\* BaseCleaner.deleteDirectory: the subtree's size is summed before the
\* removal; a live run removes the whole subtree.
DeleteDirectory(fs, os, dry, dirPath) ==
  LET p == Canon(os, dirPath)
      size == GetDirectorySize(fs, p)
  IN IF dry \/ CanRemove(fs, p)
     THEN [deleted |-> TRUE, size |-> size,
           fs |-> IF dry THEN fs ELSE RemoveTree(fs, p),
           errors |-> <<>>, raised |-> FALSE]
     ELSE [deleted |-> FALSE, size |-> 0, fs |-> fs,
           errors |-> <<ErrorMsg("Failed to delete directory", dirPath, "EPERM")>>,
           raised |-> FALSE]

\* isDirectoryEmpty (the same private method in each cleaner): readdir
\* returns no entry; false when readdir fails.
IsDirectoryEmpty(fs, os, dirPath) ==
  LET p == Canon(os, dirPath)
  IN IsDir(fs, p) /\ fs[p].readable /\ Children(fs, p) = {}

\* BaseCleaner.pathExists: fs.access(path) succeeds.
PathExists(fs, os, path) == Canon(os, path) \in DOMAIN fs

\* isFileOldEnough with >= for >.
IsFileOldEnoughInclusive(fs, os, filePath, maxAgeInDays) ==
  LET p == Canon(os, filePath)
  IN IF maxAgeInDays = 0 THEN TRUE
     ELSE IF ~CanStat(fs, p) THEN FALSE
     ELSE fs[p].age >= maxAgeInDays * MsPerDay

\* BaseCleaner.isFileOldEnough: no limit when maxAgeInDays is 0; otherwise
\* the file's age is strictly greater than the limit; false when stat fails.
IsFileOldEnough(fs, os, filePath, maxAgeInDays) ==
  LET p == Canon(os, filePath)
  IN IF maxAgeInDays = 0 THEN TRUE
     ELSE IF ~CanStat(fs, p) THEN FALSE
     ELSE fs[p].age > maxAgeInDays * MsPerDay

\* The walk of a pattern with segments ps and a base of b segments reads
\* the directory with segments ds.
WalkReadsSegments(ps, ds, b) ==
  /\ Len(ds) >= b
  /\ SubSeq(ds, 1, b) = SubSeq(ps, 1, b)
  /\ \/ \E i \in 1..Len(ps) :
           /\ ps[i] = GlobStar
           /\ i <= Len(ds) + 1
           /\ (\A j \in (b + 1)..(i - 1) : NameMatch(ps[j], ds[j], FALSE))
           /\ (\A k \in i..Len(ds) : ~Hidden(ds[k]))
     \/ /\ Len(ds) < Len(ps)
        /\ \A j \in (b + 1)..Len(ds) : NameMatch(ps[j], ds[j], FALSE)

\* The walk of pattern pat reads directory d: d is the pattern's base or a
\* directory below it that the pattern's leading segments lead into.
WalkReads(pat, d) ==
  WalkReadsSegments(Split(Unescape(pat), Slash), Split(d, Slash), BaseLen(pat))

\* The glob engine fails (it rejects with the filesystem's error) when a
\* directory it has to read cannot be read.
GlobThrows(fs, patterns) ==
  \E d \in DOMAIN fs :
    /\ fs[d].kind = "dir" /\ ~fs[d].readable
    /\ \E i \in 1..Len(patterns) : WalkReads(patterns[i], d)

\* Entry p of the wanted kind is below the base of pattern pat, which is
\* base segments long, matches it, and is not ignored.
GlobEntry(p, pat, base, ignore, isDir) ==
  /\ Depth(p) > base
  /\ EntryMatch(pat, p, isDir, FALSE)
  /\ ~Ignored(p, isDir, base, ignore)

\* glob(patterns, {ignore, absolute: true, onlyFiles | onlyDirectories}):
\* the entries of the wanted kind that match a pattern and that no ignore
\* pattern filters out, each once.
Glob(fs, patterns, ignore, kind) ==
  SetToSeq({p \in DOMAIN fs :
     /\ fs[p].kind = kind
     /\ \E i \in 1..Len(patterns) :
          GlobEntry(p, patterns[i], BaseLen(patterns[i]), ignore, kind = "dir")})

NormalizeAll(patterns) ==
  Listed([i \in 1..Len(patterns) |-> ReplaceAll(patterns[i], BackSlash, Slash)],
         Len(patterns))

\* The same with a glob engine that suppresses its errors: what it could
\* read is answered and nothing is recorded.
GlobSuppressing(fs, patterns, ignore, kind, what) ==
  [found |-> Glob(fs, patterns, ignore, kind), errors |-> <<>>]

\* try { return await glob(...) } catch (error) { this.errors.push(...);
\* return []; }
GlobOrFail(fs, patterns, ignore, kind, what) ==
  IF GlobThrows(fs, patterns)
  THEN [found |-> <<>>, errors |-> <<ErrorMsg(what, <<>>, "EACCES")>>]
  ELSE [found |-> Glob(fs, patterns, ignore, kind), errors |-> <<>>]

\* BaseCleaner.findFiles: backslashes in the patterns, the excludes and the
\* configured exclusions become forward slashes; a failure of the glob
\* engine is recorded and answered with the empty list.
FindFiles(fs, cfg, patterns, excludePatterns) ==
  GlobOrFail(fs, NormalizeAll(patterns),
             NormalizeAll(excludePatterns) \o NormalizeAll(cfg.exclusions),
             "file", "Failed to find files")

\* BaseCleaner.findDirectories: the patterns go to the glob engine as given.
FindDirectories(fs, cfg, patterns, excludePatterns) ==
  GlobOrFail(fs, patterns, excludePatterns \o cfg.exclusions,
             "dir", "Failed to find directories")

\* -------------------------------------------------------------- OSDetector
\* The environment of the process: os.homedir(), os.tmpdir() and, on
\* Windows, %LOCALAPPDATA% and %APPDATA%.

HomeDirectory(os) ==
  CASE os = "windows" -> <<"C:", BackSlash, "Users", BackSlash, "u">>
    [] os = "macos" -> <<Slash, "Users", Slash, "u">>
    [] OTHER -> <<Slash, "home", Slash, "u">>

LocalAppData(os) ==
  IF os = "windows" THEN HomeDirectory(os) \o <<BackSlash, "AppData", BackSlash, "Local">>
  ELSE <<>>

AppData(os) ==
  IF os = "windows" THEN HomeDirectory(os) \o <<BackSlash, "AppData", BackSlash, "Roaming">>
  ELSE <<>>

TempDirectory(os) ==
  CASE os = "windows" -> LocalAppData(os) \o <<BackSlash, "Temp">>
    [] os = "macos" -> <<Slash, "var", Slash, "folders", Slash, "T">>
    [] OTHER -> <<Slash, "tmp">>

\* path.join(base, name1, name2, ...)
Under(os, base, names) == PathJoin(os, <<base>> \o names)

\* Array.prototype.filter(p => p): the empty strings go.
NonEmpty(paths) == SelectSeq(paths, LAMBDA q : q # <<>>)

\* ------------------------------------------------- the cleaners' file loops
\* acc is what a cleaner has done so far: the filesystem, its counters, its
\* error list, and raised (an exception is on its way to the next catch).

NewAcc(fs) == [fs |-> fs, filesDeleted |-> 0, spaceSaved |-> 0,
               errors |-> <<>>, raised |-> FALSE, log |-> <<>>, tests |-> <<>>]

LogEntry(fs, os, p, r) ==
  [path |-> p, deleted |-> r.deleted, size |-> r.size, raised |-> r.raised,
   errors |-> r.errors,
   existed |-> Canon(os, p) \in DOMAIN fs,
   failure |-> DeleteFailure(fs, Canon(os, p)),
   sizeBefore |-> GetFileSize(fs, os, p),
   age |-> IF Canon(os, p) \in DOMAIN fs THEN fs[Canon(os, p)].age ELSE 0,
   gone |-> Canon(os, p) \notin DOMAIN r.fs]

\* if (result.deleted) { filesDeleted++; spaceSaved += result.size; }
CountResult(acc, os, file, r) ==
  [fs |-> r.fs,
   filesDeleted |-> acc.filesDeleted + (IF r.deleted /\ ~r.raised THEN 1 ELSE 0),
   spaceSaved |-> acc.spaceSaved + (IF r.deleted /\ ~r.raised THEN r.size ELSE 0),
   errors |-> acc.errors \o r.errors,
   raised |-> r.raised,
   log |-> Append(acc.log, LogEntry(acc.fs, os, file, r)),
   tests |-> acc.tests]

\* const result = await this.deleteFile(file), and the counting of it.
CountDeleteFile(acc, os, dry, file) ==
  CountResult(acc, os, file, DeleteFile(acc.fs, os, dry, file))

RECURSIVE DeleteFiles(_, _, _, _, _, _)
\* for (const file of files): with useAge, only a file that is old enough
\* is handed to deleteFile.
DeleteFiles(acc, os, dry, files, useAge, maxFileAge) ==
  IF files = <<>> \/ acc.raised THEN acc
  ELSE IF useAge /\ ~IsFileOldEnough(acc.fs, os, Head(files), maxFileAge)
       THEN DeleteFiles(acc, os, dry, Tail(files), useAge, maxFileAge)
  ELSE DeleteFiles(CountDeleteFile(acc, os, dry, Head(files)), os, dry,
                   Tail(files), useAge, maxFileAge)

\* if (result.deleted) filesDeleted++;
CountDirectoryResult(acc, r) ==
  [acc EXCEPT !.fs = r.fs,
              !.filesDeleted = @ + (IF r.deleted /\ ~r.raised THEN 1 ELSE 0),
              !.errors = @ \o r.errors,
              !.raised = r.raised]

\* History: isDirectoryEmpty was called on dir when the filesystem was fs,
\* and deleteDirectory was called after it or not.
TestEntry(fs, os, dir, called) ==
  [path |-> Canon(os, dir),
   empty |-> IsDirectoryEmpty(fs, os, dir),
   holds |-> {q \in DOMAIN fs : IsUnder(q, Canon(os, dir))},
   called |-> called]

\* The same without the test: deleteDirectory is called on any directory.
CountDeleteDirectoryUntested(acc, os, dry, dir) ==
  [CountDirectoryResult(acc, DeleteDirectory(acc.fs, os, dry, dir))
     EXCEPT !.tests = Append(@, TestEntry(acc.fs, os, dir, TRUE))]

\* if (await this.isDirectoryEmpty(dir)) { const result = await
\* this.deleteDirectory(dir); if (result.deleted) filesDeleted++; }
CountDeleteEmptyDirectory(acc, os, dry, dir) ==
  IF ~IsDirectoryEmpty(acc.fs, os, dir)
  THEN [acc EXCEPT !.tests = Append(@, TestEntry(acc.fs, os, dir, FALSE))]
  ELSE [CountDirectoryResult(acc, DeleteDirectory(acc.fs, os, dry, dir))
          EXCEPT !.tests = Append(@, TestEntry(acc.fs, os, dir, TRUE))]

RECURSIVE DeleteEmptyDirectories(_, _, _, _)
DeleteEmptyDirectories(acc, os, dry, dirs) ==
  IF dirs = <<>> \/ acc.raised THEN acc
  ELSE DeleteEmptyDirectories(CountDeleteEmptyDirectory(acc, os, dry, Head(dirs)),
                              os, dry, Tail(dirs))

Reverse(s) == Listed([i \in 1..Len(s) |-> s[Len(s) + 1 - i]], Len(s))

\* The loop over what findFiles answered; the errors findFiles recorded are
\* the cleaner's.
DeleteFound(acc, os, dry, ff, useAge, maxFileAge) ==
  DeleteFiles([acc EXCEPT !.errors = @ \o ff.errors], os, dry, ff.found, useAge, maxFileAge)

\* const files = await this.findFiles(patterns), then the loop over them.
FindAndDeleteFiles(acc, os, cfg, dry, patterns, useAge) ==
  IF acc.raised THEN acc
  ELSE DeleteFound(acc, os, dry, FindFiles(acc.fs, cfg, patterns, <<>>),
                   useAge, cfg.maxFileAge)

\* The loop over what findDirectories answered, from the last to the first
\* when backwards.
DeleteEmptyFound(acc, os, dry, fd, backwards) ==
  DeleteEmptyDirectories([acc EXCEPT !.errors = @ \o fd.errors], os, dry,
                         IF backwards THEN Reverse(fd.found) ELSE fd.found)

\* const dirs = await this.findDirectories(patterns), then the loop that
\* deletes those that are empty.
FindAndDeleteEmptyDirectories(acc, os, cfg, dry, patterns, backwards) ==
  IF acc.raised THEN acc
  ELSE DeleteEmptyFound(acc, os, dry, FindDirectories(acc.fs, cfg, patterns, <<>>),
                        backwards)

\* The catch block that ends a cleaner's try: an exception on its way is
\* recorded as one error and goes no further.
Catch(acc, what, p) ==
  IF acc.raised
  THEN [acc EXCEPT !.raised = FALSE,
                   !.errors = Append(@, ErrorMsg(what, p, "exception"))]
  ELSE acc

\* ------------------------------------------------------------- TempCleaner

\* The entries of a list without the repetitions of an earlier entry.
Distinct(paths) ==
  LET F[n \in 0..Len(paths)] ==
        IF n = 0 THEN <<>>
        ELSE IF \E k \in 1..(n - 1) : paths[k] = paths[n] THEN F[n - 1]
        ELSE Append(F[n - 1], paths[n])
  IN F[Len(paths)]

\* getTempPaths with a deduplication of the list it answers.
GetTempPathsDistinct(os, cfg) ==
  LET homeDir == HomeDirectory(os)
      tempDir == TempDirectory(os)
      builtin ==
        CASE os = "windows" ->
               << Under(os, LocalAppData(os), << <<"Temp">> >>),
                  Under(os, AppData(os), << <<"Local">>, <<"Temp">> >>),
                  <<"C:", BackSlash, "Windows", BackSlash, "Temp">>,
                  <<"C:", BackSlash, "Windows", BackSlash, "SoftwareDistribution",
                    BackSlash, "Download">>,
                  <<"C:", BackSlash, "Windows", BackSlash, "Prefetch">> >>
          [] os = "macos" ->
               << <<Slash, "tmp">>,
                  Under(os, homeDir, << <<"Library">>, <<"Caches">> >>),
                  <<Slash, "var", Slash, "tmp">>,
                  <<Slash, "private", Slash, "tmp">> >>
          [] OTHER ->
               << <<Slash, "tmp">>,
                  <<Slash, "var", Slash, "tmp">>,
                  Under(os, homeDir, << <<Dot, "cache">> >>) >>
  IN Distinct(NonEmpty(<<tempDir>> \o builtin \o cfg.customTempPaths))

\* TempCleaner.getTempPaths
GetTempPaths(os, cfg) ==
  LET homeDir == HomeDirectory(os)
      tempDir == TempDirectory(os)
      builtin ==
        CASE os = "windows" ->
               << Under(os, LocalAppData(os), << <<"Temp">> >>),
                  Under(os, AppData(os), << <<"Local">>, <<"Temp">> >>),
                  <<"C:", BackSlash, "Windows", BackSlash, "Temp">>,
                  <<"C:", BackSlash, "Windows", BackSlash, "SoftwareDistribution",
                    BackSlash, "Download">>,
                  <<"C:", BackSlash, "Windows", BackSlash, "Prefetch">> >>
          [] os = "macos" ->
               << <<Slash, "tmp">>,
                  Under(os, homeDir, << <<"Library">>, <<"Caches">> >>),
                  <<Slash, "var", Slash, "tmp">>,
                  <<Slash, "private", Slash, "tmp">> >>
          [] OTHER ->
               << <<Slash, "tmp">>,
                  <<Slash, "var", Slash, "tmp">>,
                  Under(os, homeDir, << <<Dot, "cache">> >>) >>
  IN NonEmpty(<<tempDir>> \o builtin \o cfg.customTempPaths)

\* The patterns of cleanTempPath, in the order the code lists them.
TempFilePatterns(os, tempPath) ==
  LET J(names) == Under(os, tempPath, names)
      any == <<Star>>
      deep == GlobStar
  IN << J(<< <<Star, Dot, "tmp">> >>),
        J(<< <<Star, Dot, "temp">> >>),
        J(<< <<Star, "~">> >>),
        J(<< <<Star, Dot, "log">> >>),
        J(<< <<Star, Dot, "bak">> >>),
        J(<< <<Star, Dot, "old">> >>),
        J(<< <<Star, Dot, "cache">> >>),
        J(<< deep, <<Star, Dot, "tmp">> >>),
        J(<< deep, <<Star, Dot, "temp">> >>),
        J(<< deep, <<Star, Dot, "log">> >>),
        J(<< deep, <<Star, Dot, "cache">> >>),
        J(<< deep, <<Star, "~">> >>),
        J(<< <<"Temporary Internet Files">>, deep, any >>),
        J(<< <<"IETldCache">>, deep, any >>),
        J(<< <<"chrome_", Star>>, deep, any >>),
        J(<< <<"tmp", Star>>, deep, any >>),
        J(<< <<Star, "_tmp">>, deep, any >>),
        J(<< <<Star, "tmp", Star>> >>),
        J(<< <<Star, "temp", Star>> >>),
        J(<< <<Star, "cache", Star>> >>) >>

\* TempCleaner.cleanTempPath: the matched files that are old enough are
\* deleted, then the directories directly under tempPath that are empty.
CleanTempPath(acc, os, cfg, dry, tempPath) ==
  Catch(FindAndDeleteEmptyDirectories(
          FindAndDeleteFiles(acc, os, cfg, dry, TempFilePatterns(os, tempPath), TRUE),
          os, cfg, dry, << Under(os, tempPath, << <<Star, Slash>> >>) >>, FALSE),
        "Error cleaning temp path", tempPath)

RECURSIVE TempLoop(_, _, _, _, _)
TempLoop(acc, os, cfg, dry, paths) ==
  IF paths = <<>> \/ acc.raised THEN acc
  ELSE TempLoop(IF PathExists(acc.fs, os, Head(paths))
                THEN CleanTempPath(acc, os, cfg, dry, Head(paths))
                ELSE acc,
                os, cfg, dry, Tail(paths))

\* TempCleaner.clean
TempClean(fs, os, cfg, dry) == TempLoop(NewAcc(fs), os, cfg, dry, GetTempPaths(os, cfg))

\* ------------------------------------------------------------ CacheCleaner

\* CacheCleaner.getCachePaths
GetCachePaths(os, cfg) ==
  LET homeDir == HomeDirectory(os)
      localAppData == LocalAppData(os)
      appData == AppData(os)
      builtin ==
        CASE os = "windows" ->
               << Under(os, localAppData, << <<"Microsoft">>, <<"Windows">>, <<"Explorer">>,
                                             <<"thumbcache_", Star, Dot, "db">> >>),
                  Under(os, localAppData, << <<"Microsoft">>, <<"Windows">>, <<"WebCache">> >>),
                  Under(os, localAppData, << <<"Microsoft">>, <<"Windows">>, <<"INetCache">> >>),
                  Under(os, localAppData, << <<"IconCache", Dot, "db">> >>),
                  Under(os, localAppData, << <<"npm-cache">> >>),
                  Under(os, appData, << <<"npm-cache">> >>),
                  Under(os, localAppData, << <<"yarn">>, <<"cache">> >>),
                  Under(os, localAppData, << <<"pip">>, <<"cache">> >>),
                  Under(os, localAppData, << <<"composer">>, <<"cache">> >>),
                  Under(os, appData, << <<"Code">>, <<"logs">> >>),
                  Under(os, appData, << <<"Code">>, <<"CachedData">> >>),
                  Under(os, localAppData, << <<"JetBrains">>, <<Star>>, <<"caches">> >>),
                  Under(os, localAppData, << <<"JetBrains">>, <<Star>>, <<"logs">> >>) >>
          [] os = "macos" ->
               << Under(os, homeDir, << <<"Library">>, <<"Caches">> >>),
                  <<Slash, "Library", Slash, "Caches">>,
                  <<Slash, "System", Slash, "Library", Slash, "Caches">>,
                  Under(os, homeDir, << <<Dot, "npm">>, <<"_cacache">> >>),
                  Under(os, homeDir, << <<Dot, "yarn">>, <<"cache">> >>),
                  Under(os, homeDir, << <<Dot, "cache">>, <<"pip">> >>),
                  Under(os, homeDir, << <<Dot, "composer">>, <<"cache">> >>),
                  Under(os, homeDir, << <<"Library">>, <<"Caches">>,
                                        <<"com", Dot, "microsoft", Dot, "VSCode">> >>),
                  Under(os, homeDir, << <<"Library">>, <<"Logs">>, <<"DiagnosticReports">> >>),
                  Under(os, homeDir, << <<"Library">>, <<"Application Support">>,
                                        <<"Code">>, <<"logs">> >>) >>
          [] OTHER ->
               << Under(os, homeDir, << <<Dot, "cache">> >>),
                  <<Slash, "var", Slash, "cache">>,
                  <<Slash, "tmp">>,
                  Under(os, homeDir, << <<Dot, "npm">>, <<"_cacache">> >>),
                  Under(os, homeDir, << <<Dot, "yarn">>, <<"cache">> >>),
                  Under(os, homeDir, << <<Dot, "cache">>, <<"pip">> >>),
                  Under(os, homeDir, << <<Dot, "composer">>, <<"cache">> >>),
                  Under(os, homeDir, << <<Dot, "config">>, <<"Code">>, <<"logs">> >>),
                  Under(os, homeDir, << <<Dot, "vscode">>, <<"extensions">>,
                                        <<Dot, "obsolete">> >>) >>
  IN NonEmpty(builtin \o cfg.customCachePaths)

CacheFilePatterns(os, cachePath) ==
  LET J(ext) == Under(os, cachePath, << GlobStar, ext >>)
  IN << J(<<Star, Dot, "cache">>), J(<<Star, Dot, "log">>), J(<<Star, Dot, "tmp">>),
        J(<<Star, Dot, "temp">>), J(<<Star, "~">>), J(<<Star, Dot, "bak">>) >>

\* CacheCleaner.cleanCachePath: a path with a "*" is a file pattern; any
\* other path is a directory whose cache files are deleted, and then its
\* empty subdirectories, in the order findDirectories reports them.
CleanCachePath(acc, os, cfg, dry, cachePath) ==
  Catch(IF Includes(cachePath, <<Star>>)
        THEN FindAndDeleteFiles(acc, os, cfg, dry, <<cachePath>>, TRUE)
        ELSE IF ~PathExists(acc.fs, os, cachePath) THEN acc
        ELSE FindAndDeleteEmptyDirectories(
               FindAndDeleteFiles(acc, os, cfg, dry, CacheFilePatterns(os, cachePath), TRUE),
               os, cfg, dry, << Under(os, cachePath, <<GlobStar>>) >>, FALSE),
        "Error cleaning cache path", cachePath)

RECURSIVE CacheLoop(_, _, _, _, _)
CacheLoop(acc, os, cfg, dry, paths) ==
  IF paths = <<>> \/ acc.raised THEN acc
  ELSE CacheLoop(IF PathExists(acc.fs, os, Head(paths))
                 THEN CleanCachePath(acc, os, cfg, dry, Head(paths))
                 ELSE acc,
                 os, cfg, dry, Tail(paths))

\* CacheCleaner.clean
CacheClean(fs, os, cfg, dry) == CacheLoop(NewAcc(fs), os, cfg, dry, GetCachePaths(os, cfg))

\* ---------------------------------------------------------- BrowserCleaner

\* BrowserCleaner.getChromePaths
GetChromePaths(os) ==
  LET homeDir == HomeDirectory(os)
      localAppData == LocalAppData(os)
      chrome == << <<"Google">>, <<"Chrome">> >>
  IN CASE os = "windows" ->
            << Under(os, localAppData, chrome \o << <<"User Data">>, <<"Default">>, <<"Cache">> >>),
               Under(os, localAppData, chrome \o << <<"User Data">>, <<"Default">>, <<"Code Cache">> >>),
               Under(os, localAppData, chrome \o << <<"User Data">>, <<"Default">>, <<"GPUCache">> >>),
               Under(os, localAppData, chrome \o << <<"User Data">>, <<"ShaderCache">> >>),
               Under(os, localAppData, chrome \o << <<"User Data">>, <<"SwiftShader">> >>) >>
       [] os = "macos" ->
            << Under(os, homeDir, << <<"Library">>, <<"Caches">> >> \o chrome),
               Under(os, homeDir, << <<"Library">>, <<"Application Support">> >> \o chrome
                                  \o << <<"Default">>, <<"GPUCache">> >>),
               Under(os, homeDir, << <<"Library">>, <<"Application Support">> >> \o chrome
                                  \o << <<"ShaderCache">> >>) >>
       [] OTHER ->
            << Under(os, homeDir, << <<Dot, "cache">>, <<"google-chrome">> >>),
               Under(os, homeDir, << <<Dot, "config">>, <<"google-chrome">>,
                                     <<"Default">>, <<"GPUCache">> >>),
               Under(os, homeDir, << <<Dot, "config">>, <<"google-chrome">>,
                                     <<"ShaderCache">> >>) >>

\* BrowserCleaner.getFirefoxPaths
GetFirefoxPaths(os) ==
  LET homeDir == HomeDirectory(os)
      profiles == << <<"Mozilla">>, <<"Firefox">>, <<"Profiles">>, <<Star>> >>
  IN CASE os = "windows" ->
            << Under(os, LocalAppData(os), profiles \o << <<"cache2">> >>),
               Under(os, LocalAppData(os), profiles \o << <<"startupCache">> >>),
               Under(os, AppData(os), profiles \o << <<"cache2">> >>),
               Under(os, AppData(os), profiles \o << <<"startupCache">> >>) >>
       [] os = "macos" ->
            << Under(os, homeDir, << <<"Library">>, <<"Caches">>, <<"Firefox">> >>),
               Under(os, homeDir, << <<"Library">>, <<"Application Support">>, <<"Firefox">>,
                                     <<"Profiles">>, <<Star>>, <<"cache2">> >>),
               Under(os, homeDir, << <<"Library">>, <<"Application Support">>, <<"Firefox">>,
                                     <<"Profiles">>, <<Star>>, <<"startupCache">> >>) >>
       [] OTHER ->
            << Under(os, homeDir, << <<Dot, "cache">>, <<"mozilla">>, <<"firefox">> >>),
               Under(os, homeDir, << <<Dot, "mozilla">>, <<"firefox">>, <<Star>>, <<"cache2">> >>),
               Under(os, homeDir, << <<Dot, "mozilla">>, <<"firefox">>, <<Star>>,
                                     <<"startupCache">> >>) >>

\* BrowserCleaner.getEdgePaths
GetEdgePaths(os) ==
  LET homeDir == HomeDirectory(os)
      edge == << <<"Microsoft">>, <<"Edge">>, <<"User Data">> >>
  IN CASE os = "windows" ->
            << Under(os, LocalAppData(os), edge \o << <<"Default">>, <<"Cache">> >>),
               Under(os, LocalAppData(os), edge \o << <<"Default">>, <<"Code Cache">> >>),
               Under(os, LocalAppData(os), edge \o << <<"Default">>, <<"GPUCache">> >>),
               Under(os, LocalAppData(os), edge \o << <<"ShaderCache">> >>) >>
       [] os = "macos" ->
            << Under(os, homeDir, << <<"Library">>, <<"Caches">>, <<"Microsoft Edge">> >>),
               Under(os, homeDir, << <<"Library">>, <<"Application Support">>,
                                     <<"Microsoft Edge">>, <<"Default">>, <<"GPUCache">> >>) >>
       [] OTHER ->
            << Under(os, homeDir, << <<Dot, "cache">>, <<"microsoft-edge">> >>),
               Under(os, homeDir, << <<Dot, "config">>, <<"microsoft-edge">>,
                                     <<"Default">>, <<"GPUCache">> >>) >>

\* BrowserCleaner.getSafariPaths
GetSafariPaths(os) ==
  LET homeDir == HomeDirectory(os)
  IN << Under(os, homeDir, << <<"Library">>, <<"Caches">>,
                              <<"com", Dot, "apple", Dot, "Safari">> >>),
        Under(os, homeDir, << <<"Library">>, <<"Safari">>, <<"WebpageIcons", Dot, "db">> >>),
        Under(os, homeDir, << <<"Library">>, <<"Safari">>, <<"Webpage Previews">> >>) >>

\* if (await this.isDirectoryEmpty(browserPath)) { ...deleteDirectory... },
\* reached when the file loop raised nothing.
DeleteIfEmpty(acc, os, dry, dir) ==
  IF acc.raised THEN acc ELSE CountDeleteEmptyDirectory(acc, os, dry, dir)

\* One pass of the loop of cleanBrowserPaths: every file below the path that
\* is old enough is deleted, and a direct path is removed when it is empty.
CleanBrowserPath(acc, os, cfg, dry, browserPath, browserName) ==
  Catch(IF Includes(browserPath, <<Star>>)
        THEN FindAndDeleteFiles(acc, os, cfg, dry,
                                << Under(os, browserPath, << GlobStar, <<Star>> >>) >>, TRUE)
        ELSE IF ~PathExists(acc.fs, os, browserPath) THEN acc
        ELSE DeleteIfEmpty(
               FindAndDeleteFiles(acc, os, cfg, dry,
                                  << Under(os, browserPath, << GlobStar, <<Star>> >>) >>, TRUE),
               os, dry, browserPath),
        <<"Error cleaning ", browserName, " cache">>, browserPath)

RECURSIVE CleanBrowserPaths(_, _, _, _, _, _)
\* BrowserCleaner.cleanBrowserPaths
CleanBrowserPaths(acc, os, cfg, dry, browserPaths, browserName) ==
  IF browserPaths = <<>> \/ acc.raised THEN acc
  ELSE CleanBrowserPaths(CleanBrowserPath(acc, os, cfg, dry, Head(browserPaths), browserName),
                         os, cfg, dry, Tail(browserPaths), browserName)

\* The browsers clean() goes through, in its order: whether the
\* configuration enables each, its paths and its name.  Safari is cleaned on
\* macOS only.
Browsers(os, cfg) ==
  << [enabled |-> cfg.browsers.chrome, paths |-> GetChromePaths(os), name |-> "Chrome"],
     [enabled |-> cfg.browsers.firefox, paths |-> GetFirefoxPaths(os), name |-> "Firefox"],
     [enabled |-> cfg.browsers.edge, paths |-> GetEdgePaths(os), name |-> "Edge"],
     [enabled |-> cfg.browsers.safari /\ os = "macos", paths |-> GetSafariPaths(os),
      name |-> "Safari"] >>

RECURSIVE BrowserLoop(_, _, _, _, _)
BrowserLoop(acc, os, cfg, dry, browsers) ==
  IF browsers = <<>> \/ acc.raised THEN acc
  ELSE BrowserLoop(IF Head(browsers).enabled
                   THEN CleanBrowserPaths(acc, os, cfg, dry, Head(browsers).paths,
                                          Head(browsers).name)
                   ELSE acc,
                   os, cfg, dry, Tail(browsers))

\* BrowserCleaner.clean: each enabled browser in turn.
BrowserClean(fs, os, cfg, dry) == BrowserLoop(NewAcc(fs), os, cfg, dry, Browsers(os, cfg))

\* ------------------------------------------------------------ TrashCleaner

\* TrashCleaner.getTrashPaths
GetTrashPaths(os) ==
  LET homeDir == HomeDirectory(os)
      bin(drive) == << Under(os, <<drive>>, << <<"$Recycle", Dot, "Bin">> >>),
                       Under(os, <<drive>>, << <<"RECYCLER">> >>) >>
  IN NonEmpty(
       CASE os = "windows" -> bin("C:") \o bin("D:") \o bin("E:") \o bin("F:")
         [] os = "macos" ->
              << Under(os, homeDir, << <<Dot, "Trash">> >>),
                 <<Slash, "Volumes", Slash, Star, Slash, Dot, "Trashes">>,
                 <<Slash, Dot, "Trashes">> >>
         [] OTHER ->
              << Under(os, homeDir, << <<Dot, "local">>, <<"share">>, <<"Trash">> >>),
                 <<Slash, "tmp", Slash, Dot, "Trash-", Star>> >>)

\* The same cleaner with the counters of a method that starts: let
\* filesDeleted = 0; let spaceSaved = 0.
Fresh(acc) == [acc EXCEPT !.filesDeleted = 0, !.spaceSaved = 0]

\* filesDeleted += result.filesDeleted; spaceSaved += result.spaceSaved
AddCounts(acc, after, use) ==
  [after EXCEPT !.filesDeleted = acc.filesDeleted + (IF use THEN after.filesDeleted ELSE 0),
                !.spaceSaved = acc.spaceSaved + (IF use THEN after.spaceSaved ELSE 0)]

\* The files below root deleted with the age test of the temp, cache and
\* browser loops.
EmptyTreeAged(acc, os, cfg, dry, root) ==
  FindAndDeleteEmptyDirectories(
    FindAndDeleteFiles(acc, os, cfg, dry,
                       << Under(os, root, << GlobStar, <<Star>> >>) >>, TRUE),
    os, cfg, dry, << Under(os, root, <<GlobStar>>) >>, TRUE)

\* The files below root are deleted, whatever their age; then the
\* directories below it, the last reported first, each if it is empty.
EmptyTree(acc, os, cfg, dry, root) ==
  FindAndDeleteEmptyDirectories(
    FindAndDeleteFiles(acc, os, cfg, dry,
                       << Under(os, root, << GlobStar, <<Star>> >>) >>, FALSE),
    os, cfg, dry, << Under(os, root, <<GlobStar>>) >>, TRUE)

RECURSIVE RecycleFolders(_, _, _, _, _)
RecycleFolders(acc, os, cfg, dry, userFolders) ==
  IF userFolders = <<>> \/ acc.raised THEN acc
  ELSE RecycleFolders(EmptyTree(acc, os, cfg, dry, Head(userFolders)),
                      os, cfg, dry, Tail(userFolders))

\* The loop of cleanWindowsRecycleBin over the folders findDirectories
\* answered.
RecycleFound(acc, os, cfg, dry, fd) ==
  RecycleFolders([Fresh(acc) EXCEPT !.errors = @ \o fd.errors], os, cfg, dry, fd.found)

\* TrashCleaner.cleanWindowsRecycleBin: the S-* folders of the bin, each
\* emptied.
CleanWindowsRecycleBin(acc, os, cfg, dry, recycleBinPath) ==
  Catch(RecycleFound(acc, os, cfg, dry,
                     FindDirectories(acc.fs, cfg,
                       << Under(os, recycleBinPath, << <<"S-", Star>> >>) >>, <<>>)),
        "Error cleaning Windows Recycle Bin", <<>>)

\* if (await this.pathExists(filesDir)) { ... } of cleanLinuxTrash
CleanTrashFiles(acc, os, cfg, dry, filesDir) ==
  IF PathExists(acc.fs, os, filesDir) THEN EmptyTree(acc, os, cfg, dry, filesDir) ELSE acc

\* if (await this.pathExists(infoDir)) { ... } of cleanLinuxTrash
CleanTrashInfo(acc, os, cfg, dry, infoDir) ==
  IF ~acc.raised /\ PathExists(acc.fs, os, infoDir)
  THEN FindAndDeleteFiles(acc, os, cfg, dry,
                          << Under(os, infoDir, << <<Star, Dot, "trashinfo">> >>) >>, FALSE)
  ELSE acc

\* TrashCleaner.cleanLinuxTrash: the files/ subtree is emptied, then the
\* *.trashinfo files of info/ are deleted.
CleanLinuxTrash(acc, os, cfg, dry, trashPath) ==
  Catch(CleanTrashInfo(
          CleanTrashFiles(Fresh(acc), os, cfg, dry, Under(os, trashPath, << <<"files">> >>)),
          os, cfg, dry, Under(os, trashPath, << <<"info">> >>)),
        "Error cleaning Linux trash", <<>>)

\* TrashCleaner.emptyTrashDirectory: the platform's strategy.  Only the
\* macOS branch counts into this method's filesDeleted and spaceSaved: the
\* values the Windows and Linux methods return are not used.
EmptyTrashDirectory(acc, os, cfg, dry, trashPath) ==
  AddCounts(acc,
            Catch(CASE os = "windows" ->
                         AddCounts(Fresh(acc),
                                   CleanWindowsRecycleBin(acc, os, cfg, dry, trashPath), FALSE)
                    [] os = "macos" -> EmptyTree(Fresh(acc), os, cfg, dry, trashPath)
                    [] OTHER ->
                         AddCounts(Fresh(acc),
                                   CleanLinuxTrash(acc, os, cfg, dry, trashPath), FALSE),
                  "Error emptying trash directory", trashPath),
            TRUE)

RECURSIVE EmptyTrashDirectories(_, _, _, _, _)
EmptyTrashDirectories(acc, os, cfg, dry, matchingPaths) ==
  IF matchingPaths = <<>> \/ acc.raised THEN acc
  ELSE EmptyTrashDirectories(EmptyTrashDirectory(acc, os, cfg, dry, Head(matchingPaths)),
                             os, cfg, dry, Tail(matchingPaths))

\* for (const matchingPath of matchingPaths) of cleanTrashPath
EmptyFound(acc, os, cfg, dry, fd) ==
  EmptyTrashDirectories([acc EXCEPT !.errors = @ \o fd.errors], os, cfg, dry, fd.found)

\* TrashCleaner.cleanTrashPath: a path with a "*" is expanded by
\* findDirectories; a direct path is emptied when it exists.
CleanTrashPath(acc, os, cfg, dry, trashPath) ==
  Catch(IF Includes(trashPath, <<Star>>)
        THEN EmptyFound(acc, os, cfg, dry, FindDirectories(acc.fs, cfg, <<trashPath>>, <<>>))
        ELSE IF PathExists(acc.fs, os, trashPath)
             THEN EmptyTrashDirectory(acc, os, cfg, dry, trashPath)
             ELSE acc,
        "Error cleaning trash path", trashPath)

RECURSIVE TrashLoopStopping(_, _, _, _, _)
\* The loop of clean leaving at the first root that recorded an error.
TrashLoopStopping(acc, os, cfg, dry, paths) ==
  IF paths = <<>> \/ acc.raised \/ acc.errors # <<>> THEN acc
  ELSE TrashLoopStopping(IF PathExists(acc.fs, os, Head(paths))
                         THEN CleanTrashPath(acc, os, cfg, dry, Head(paths))
                         ELSE acc,
                         os, cfg, dry, Tail(paths))

RECURSIVE TrashLoop(_, _, _, _, _)
\* for (const trashPath of trashPaths) of TrashCleaner.clean
TrashLoop(acc, os, cfg, dry, paths) ==
  IF paths = <<>> \/ acc.raised THEN acc
  ELSE TrashLoop(IF PathExists(acc.fs, os, Head(paths))
                 THEN CleanTrashPath(acc, os, cfg, dry, Head(paths))
                 ELSE acc,
                 os, cfg, dry, Tail(paths))

\* TrashCleaner.clean
TrashClean(fs, os, cfg, dry) == TrashLoop(NewAcc(fs), os, cfg, dry, GetTrashPaths(os))

\* ------------------------------------------------------ DownloadsOrganizer
\* config.organizeDownloads.categories is a sequence of entries in the order
\* the configuration declares them: [name, index, extensions], where index
\* is the number a name that is a canonical array index ("7", "2024")
\* denotes, and -1 for any other name.

RECURSIVE SortByIndex(_)
SortByIndex(entries) ==
  IF entries = <<>> THEN <<>>
  ELSE LET i == CHOOSE k \in 1..Len(entries) :
                  \A j \in 1..Len(entries) :
                    entries[k].index < entries[j].index
                    \/ (entries[k].index = entries[j].index /\ k <= j)
       IN <<entries[i]>>
          \o SortByIndex([j \in 1..(Len(entries) - 1) |->
                            IF j < i THEN entries[j] ELSE entries[j + 1]])

\* Object.entries(categories): the own properties in property order, which
\* is the integer-like names in ascending numeric order, then the other
\* names in the order they were created.
ObjectEntries(categories) ==
  SortByIndex(SelectSeq(categories, LAMBDA c : c.index >= 0))
  \o SelectSeq(categories, LAMBDA c : c.index < 0)

\* Array.prototype.includes
ArrayIncludes(arr, x) == \E i \in 1..Len(arr) : arr[i] = x

NoCategory == <<>>

RECURSIVE FirstCategory(_, _)
FirstCategory(entries, extension) ==
  IF entries = <<>> THEN NoCategory
  ELSE IF ArrayIncludes(Head(entries).extensions, extension) THEN Head(entries).name
  ELSE FirstCategory(Tail(entries), extension)

\* DownloadsOrganizer.getCategoryForExtension: the first entry of
\* Object.entries whose extensions include the extension, null when none.
GetCategoryForExtension(cfg, extension) ==
  FirstCategory(ObjectEntries(cfg.organizeDownloads.categories), extension)

NewDirectory == [kind |-> "dir", size |-> 0, age |-> 0,
                 readable |-> TRUE, writable |-> TRUE, removable |-> TRUE]

\* fs.ensureDir(p) fails when p exists and is no directory.
CanEnsureDir(fs, p) == p \notin DOMAIN fs \/ fs[p].kind = "dir"

\* fs.ensureDir(p): p becomes a directory if it is not there.
EnsureDir(fs, p) ==
  IF p \in DOMAIN fs THEN fs
  ELSE [q \in DOMAIN fs \cup {p} |-> IF q = p THEN NewDirectory ELSE fs[q]]

\* fs.move(src, dest) fails when src is gone or cannot be unlinked, or when
\* dest exists (it overwrites nothing).
CanMove(fs, src, dest) ==
  /\ src \in DOMAIN fs
  /\ fs[src].removable
  /\ dest \notin DOMAIN fs

\* fs.move(src, dest) for a file.
Move(fs, src, dest) ==
  [q \in (DOMAIN fs \ {src}) \cup {dest} |-> IF q = dest THEN fs[src] ELSE fs[q]]

\* `${name} (${counter})${ext}`
CountedName(name, counter, ext) == name \o <<" (", ToString(counter), ")">> \o ext

RECURSIVE UniqueFrom(_, _, _, _, _, _)
UniqueFrom(fs, os, dirPath, fileName, uniqueName, counter) ==
  IF PathExists(fs, os, PathJoin(os, <<dirPath, uniqueName>>))
  THEN UniqueFrom(fs, os, dirPath, fileName,
                  CountedName(ParseName(fileName), counter, ExtName(fileName)),
                  counter + 1)
  ELSE uniqueName

\* A generateUniqueFileName whose counter starts at 2.
GenerateUniqueFileNameFromTwo(fs, os, dirPath, fileName) ==
  UniqueFrom(fs, os, dirPath, fileName, fileName, 2)

\* DownloadsOrganizer.generateUniqueFileName: fileName, or the first of
\* "name (1).ext", "name (2).ext", ... that is not in dirPath.
GenerateUniqueFileName(fs, os, dirPath, fileName) ==
  UniqueFrom(fs, os, dirPath, fileName, fileName, 1)

\* What organizeFile answers: whether the file was organized, the
\* filesystem it leaves, the errors it recorded, the moves it made.
Organized(organized, fs, errors, moves) ==
  [organized |-> organized, fs |-> fs, errors |-> errors, moves |-> moves]

\* catch (error) { this.errors.push(`Failed to organize file ...`); return false; }
OrganizeFailed(fs, filePath) ==
  Organized(FALSE, fs, <<ErrorMsg("Failed to organize file", filePath, "exception")>>, <<>>)

\* The same answering true after the catch block: a move that failed is
\* counted.
MoveFileCounted(fs, filePath, src, dest, category) ==
  IF ~CanMove(fs, src, dest)
  THEN Organized(TRUE, fs, <<ErrorMsg("Failed to organize file", filePath, "exception")>>, <<>>)
  ELSE Organized(TRUE, Move(fs, src, dest), <<>>,
                 << [from |-> src, to |-> dest, category |-> category, on |-> fs] >>)

\* await fs.move(filePath, newFilePath) and what follows it.  The move is
\* recorded (history) with the filesystem it was made on.
MoveFile(fs, filePath, src, dest, category) ==
  IF ~CanMove(fs, src, dest) THEN OrganizeFailed(fs, filePath)
  ELSE Organized(TRUE, Move(fs, src, dest), <<>>,
                 << [from |-> src, to |-> dest, category |-> category, on |-> fs] >>)

\* The path the file is moved to: newFilePath, or the unique name's path
\* when newFilePath exists.
TargetPath(fs, os, categoryPath, fileName) ==
  IF PathExists(fs, os, PathJoin(os, <<categoryPath, fileName>>))
  THEN PathJoin(os, <<categoryPath, GenerateUniqueFileName(fs, os, categoryPath, fileName)>>)
  ELSE PathJoin(os, <<categoryPath, fileName>>)

\* organizeFile once the category directory is there.
MoveToCategory(fs, os, filePath, fileName, category, categoryPath) ==
  MoveFile(fs, filePath, Canon(os, filePath),
           Canon(os, TargetPath(fs, os, categoryPath, fileName)), category)

\* organizeFile from await fs.ensureDir(categoryPath) on.
OrganizeInto(fs, os, filePath, fileName, category, categoryPath) ==
  IF ~CanEnsureDir(fs, Canon(os, categoryPath)) THEN OrganizeFailed(fs, filePath)
  ELSE MoveToCategory(EnsureDir(fs, Canon(os, categoryPath)), os, filePath, fileName,
                      category, categoryPath)

\* organizeFile once the file's name, lower-cased extension and category
\* are known.
OrganizeNamed(fs, os, dry, filePath, downloadsPath, fileName, fileExt, category) ==
  IF fileExt = <<>> \/ StartsWith(fileName, <<Dot>>) THEN Organized(FALSE, fs, <<>>, <<>>)
  ELSE IF category = NoCategory THEN Organized(FALSE, fs, <<>>, <<>>)
  ELSE IF dry THEN Organized(TRUE, fs, <<>>, <<>>)
  ELSE OrganizeInto(fs, os, filePath, fileName, category,
                    PathJoin(os, <<downloadsPath, category>>))

\* organizeFile once the file's name and lower-cased extension are known.
OrganizeWithExt(fs, os, cfg, dry, filePath, downloadsPath, fileName, fileExt) ==
  OrganizeNamed(fs, os, dry, filePath, downloadsPath, fileName, fileExt,
                GetCategoryForExtension(cfg, fileExt))

\* DownloadsOrganizer.organizeFile: [organized, fs, errors, moves].
OrganizeFile(fs, os, cfg, dry, filePath, downloadsPath) ==
  OrganizeWithExt(fs, os, cfg, dry, filePath, downloadsPath, Basename(os, filePath),
                  ToLowerCase(ExtName(Basename(os, filePath))))

\* if (await this.organizeFile(...)) filesOrganized++;
CountOrganized(acc, r) ==
  [filesOrganized |-> acc.filesOrganized + (IF r.organized THEN 1 ELSE 0),
   fs |-> r.fs,
   errors |-> acc.errors \o r.errors,
   moves |-> acc.moves \o r.moves]

RECURSIVE OrganizeFiles(_, _, _, _, _, _)
\* for (const file of files) { if (await this.organizeFile(...)) filesOrganized++; }
OrganizeFiles(acc, os, cfg, dry, files, downloadsPath) ==
  IF files = <<>> THEN acc
  ELSE OrganizeFiles(CountOrganized(acc, OrganizeFile(acc.fs, os, cfg, dry, Head(files),
                                                      downloadsPath)),
                     os, cfg, dry, Tail(files), downloadsPath)

\* What organize answers when it has organized nothing.
NothingOrganized(fs, errors) ==
  [fs |-> fs, filesOrganized |-> 0, errors |-> errors, moves |-> <<>>]

\* The loop of organize over what findFiles answered.
OrganizeFound(fs, os, cfg, dry, ff) ==
  OrganizeFiles(NothingOrganized(fs, ff.errors), os, cfg, dry, ff.found, cfg.downloadsPath)

\* DownloadsOrganizer.organize: the files directly in the downloads folder,
\* each organized; nothing is done when organizing is disabled or the folder
\* is missing.
Organize(fs, os, cfg, dry) ==
  IF ~cfg.organizeDownloads.enabled
  THEN NothingOrganized(fs, <<ErrorMsg("Downloads organization is disabled in config",
                                       <<>>, "")>>)
  ELSE IF ~PathExists(fs, os, cfg.downloadsPath)
  THEN NothingOrganized(fs, <<ErrorMsg("Downloads folder not found", cfg.downloadsPath, "")>>)
  ELSE OrganizeFound(fs, os, cfg, dry,
                     FindFiles(fs, cfg, << PathJoin(os, <<cfg.downloadsPath, <<Star>> >>) >>,
                               <<>>))

\* --------------------------------------------------------- LargeFileFinder

\* The depth past which traverseDirectory returns at once.
MaxDepth == 10

\* LargeFileFinder.getSearchPaths
GetSearchPaths(os) ==
  LET homeDir == HomeDirectory(os)
      H(name) == Under(os, homeDir, << <<name>> >>)
  IN NonEmpty(<<homeDir>> \o
       CASE os = "windows" ->
              << <<"C:", BackSlash, "Users">>, <<"C:", BackSlash, "Downloads">>,
                 H("Documents"), H("Videos"), H("Pictures"), H("Desktop") >>
         [] os = "macos" ->
              << H("Documents"), H("Movies"), H("Pictures"), H("Desktop"), H("Library"),
                 <<Slash, "Applications">> >>
         [] OTHER ->
              << H("Documents"), H("Videos"), H("Pictures"), H("Desktop"),
                 <<Slash, "opt">>, <<Slash, "usr", Slash, "share">> >>)

SystemDirs ==
  { <<"System Volume Information">>, <<"$RECYCLE", Dot, "BIN">>, <<"Windows">>,
    <<"Program Files">>, <<"Program Files (x86)">>, <<"ProgramData">>, <<"AppData">>,
    <<"node_modules">>, <<Dot, "git">>, <<Dot, "svn">>, <<Dot, "hg">> }

WindowsSkipPaths ==
  { <<"C:", BackSlash, "Windows">>, <<"C:", BackSlash, "Program Files">>,
    <<"C:", BackSlash, "Program Files (x86)">>, <<"C:", BackSlash, "ProgramData">> }

MacosSkipPaths ==
  { <<Slash, "System">>, <<Slash, "Library", Slash, "System">>,
    <<Slash, "usr", Slash, "bin">>, <<Slash, "usr", Slash, "sbin">>,
    <<Slash, "bin">>, <<Slash, "sbin">> }

LinuxSkipPaths ==
  { <<Slash, "bin">>, <<Slash, "sbin">>, <<Slash, "usr", Slash, "bin">>,
    <<Slash, "usr", Slash, "sbin">>, <<Slash, "lib">>, <<Slash, "lib64">>,
    <<Slash, "usr", Slash, "lib">>, <<Slash, "usr", Slash, "lib64">>,
    <<Slash, "sys">>, <<Slash, "proc">>, <<Slash, "dev">> }

\* shouldSkipPath without its loop over the configured exclusions.
ShouldSkipPathBuiltin(os, cfg, fullPath, itemName) ==
  \/ StartsWith(itemName, <<Dot>>)
  \/ itemName \in SystemDirs
  \/ CASE os = "windows" ->
            \E skipPath \in WindowsSkipPaths :
              StartsWith(ToLowerCase(fullPath), ToLowerCase(skipPath))
       [] os = "macos" -> \E skipPath \in MacosSkipPaths : StartsWith(fullPath, skipPath)
       [] OTHER -> \E skipPath \in LinuxSkipPaths : StartsWith(fullPath, skipPath)

\* LargeFileFinder.shouldSkipPath: a hidden name, a system directory name, a
\* path that starts with one of the platform's system paths (compared in
\* lower case on Windows), or a path that contains a configured exclusion.
ShouldSkipPath(os, cfg, fullPath, itemName) ==
  \/ StartsWith(itemName, <<Dot>>)
  \/ itemName \in SystemDirs
  \/ CASE os = "windows" ->
            \E skipPath \in WindowsSkipPaths :
              StartsWith(ToLowerCase(fullPath), ToLowerCase(skipPath))
       [] os = "macos" -> \E skipPath \in MacosSkipPaths : StartsWith(fullPath, skipPath)
       [] OTHER -> \E skipPath \in LinuxSkipPaths : StartsWith(fullPath, skipPath)
  \/ \E i \in 1..Len(cfg.exclusions) : Includes(fullPath, cfg.exclusions[i])

\* A comparison that leaves out a file of exactly the threshold size.
OverThreshold(cfg, size) == size > cfg.largeFileThreshold

\* stats.size >= this.config.largeFileThreshold
IsLargeFile(cfg, size) == size >= cfg.largeFileThreshold

RECURSIVE TraverseDirectory(_, _, _, _, _)
RECURSIVE TraverseItems(_, _, _, _, _, _)

\* The loop of traverseDirectory over the entries readdir returned.
TraverseItems(fs, os, cfg, dirPath, items, depth) ==
  IF items = <<>> THEN <<>>
  ELSE LET item == Head(items)
           itemName == SubSeq(item, Len(Canon(os, dirPath)) + 2, Len(item))
           itemPath == PathJoin(os, <<dirPath, itemName>>)
           here ==
             IF ShouldSkipPath(os, cfg, itemPath, itemName) THEN <<>>
             ELSE IF fs[item].kind = "file"
                  THEN IF fs[item].readable /\ IsLargeFile(cfg, fs[item].size)
                       THEN << [path |-> itemPath, size |-> fs[item].size] >>
                       ELSE <<>>
             ELSE IF fs[item].kind = "dir"
                  THEN TraverseDirectory(fs, os, cfg, itemPath, depth + 1)
             ELSE <<>>
       IN here \o TraverseItems(fs, os, cfg, dirPath, Tail(items), depth)

\* traverseDirectory without its test of the depth.
TraverseDirectoryUncapped(fs, os, cfg, dirPath, depth) ==
  LET d == Canon(os, dirPath)
  IN IF ~IsDir(fs, d) \/ ~fs[d].readable THEN <<>>
     ELSE TraverseItems(fs, os, cfg, dirPath, SetToSeq(Children(fs, d)), depth)

\* LargeFileFinder.traverseDirectory: nothing past MaxDepth; a directory
\* that cannot be read contributes nothing.
TraverseDirectory(fs, os, cfg, dirPath, depth) ==
  LET d == Canon(os, dirPath)
  IN IF depth > MaxDepth THEN <<>>
     ELSE IF ~IsDir(fs, d) \/ ~fs[d].readable THEN <<>>
     ELSE TraverseItems(fs, os, cfg, dirPath, SetToSeq(Children(fs, d)), depth)

RECURSIVE TraverseReads(_, _, _, _, _)
RECURSIVE ItemReads(_, _, _, _, _, _)

\* The directories the loop of traverseDirectory passes to the recursive
\* call: the entries that are not skipped and for which isDirectory() holds.
ItemReads(fs, os, cfg, dirPath, items, depth) ==
  IF items = <<>> THEN <<>>
  ELSE LET item == Head(items)
           itemName == SubSeq(item, Len(Canon(os, dirPath)) + 2, Len(item))
           itemPath == PathJoin(os, <<dirPath, itemName>>)
           here ==
             IF ShouldSkipPath(os, cfg, itemPath, itemName) THEN <<>>
             ELSE IF fs[item].kind = "dir"
                  THEN TraverseReads(fs, os, cfg, itemPath, depth + 1)
             ELSE <<>>
       IN here \o ItemReads(fs, os, cfg, dirPath, Tail(items), depth)

\* The directories traverseDirectory calls fs.readdir on, in the order of
\* the calls: none past MaxDepth, and nothing below a directory whose
\* readdir fails.
TraverseReads(fs, os, cfg, dirPath, depth) ==
  LET d == Canon(os, dirPath)
  IN IF depth > MaxDepth THEN <<>>
     ELSE <<d>> \o
          (IF ~IsDir(fs, d) \/ ~fs[d].readable THEN <<>>
           ELSE ItemReads(fs, os, cfg, dirPath, SetToSeq(Children(fs, d)), depth))

RECURSIVE InsertBySize(_, _)
InsertBySize(sorted, x) ==
  IF sorted = <<>> THEN <<x>>
  ELSE IF Head(sorted).size >= x.size THEN <<Head(sorted)>> \o InsertBySize(Tail(sorted), x)
  ELSE <<x>> \o sorted

RECURSIVE SortBySizeDesc(_)
\* largeFiles.sort((a, b) => b.size - a.size): largest first, equal sizes
\* in the order they were found.
SortBySizeDesc(files) ==
  IF files = <<>> THEN <<>>
  ELSE InsertBySize(SortBySizeDesc(SubSeq(files, 1, Len(files) - 1)), files[Len(files)])

RECURSIVE SearchLoop(_, _, _, _)
SearchLoop(fs, os, cfg, searchPaths) ==
  IF searchPaths = <<>> THEN <<>>
  ELSE (IF PathExists(fs, os, Head(searchPaths))
        THEN TraverseDirectory(fs, os, cfg, Head(searchPaths), 0)
        ELSE <<>>)
       \o SearchLoop(fs, os, cfg, Tail(searchPaths))

\* LargeFileFinder.find: the files found from each search path that exists,
\* sorted by size.
Find(fs, os, cfg) == SortBySizeDesc(SearchLoop(fs, os, cfg, GetSearchPaths(os)))

\* ---------------------------------------------------------- CleanupManager

VARIABLES
  osType,     \* OSDetector.getOS()
  dryRun,     \* CleanupManager.dryRun
  config,     \* the CleanupConfig, loaded once
  faulty,     \* the tasks whose cleaner throws out of clean()
  fs,         \* the filesystem
  results,    \* CleanupManager.results
  pc,         \* "idle", or the task runAllTasks is about to await
  initialFs,  \* history: the filesystem the manager was constructed on
  hist        \* history: per entry of results, what the task did

vars == <<osType, dryRun, config, faulty, fs, results, pc, initialFs, hist>>

TaskOrder == <<"temp", "cache", "browsers", "trash", "downloads", "largeFiles">>

Tasks == {TaskOrder[i] : i \in 1..Len(TaskOrder)}

\* error instanceof Error ? error.message : 'Unknown error'
ThrownError == ErrorMsg("Unknown error", <<>>, "exception")

\* What a cleaner's clean() returns: its result record, the filesystem it
\* leaves, and (history) the deleteFile calls, the isDirectoryEmpty calls
\* and the moves it made.
CleanerRun(task, acc) ==
  [result |-> [task |-> task, filesDeleted |-> acc.filesDeleted,
               spaceSaved |-> acc.spaceSaved, errors |-> acc.errors],
   fs |-> acc.fs, log |-> acc.log, tests |-> acc.tests, moves |-> <<>>]

RunTemp == CleanerRun("temp", TempClean(fs, osType, config, dryRun))

RunCache == CleanerRun("cache", CacheClean(fs, osType, config, dryRun))

RunBrowsers == CleanerRun("browsers", BrowserClean(fs, osType, config, dryRun))

RunTrash == CleanerRun("trash", TrashClean(fs, osType, config, dryRun))

DownloadsRun(o) ==
  [result |-> [task |-> "downloads", filesDeleted |-> 0, spaceSaved |-> 0,
               filesOrganized |-> o.filesOrganized, errors |-> o.errors],
   fs |-> o.fs, log |-> <<>>, tests |-> <<>>, moves |-> o.moves]

RunDownloads == DownloadsRun(Organize(fs, osType, config, dryRun))

RunLargeFiles ==
  [result |-> [task |-> "largeFiles", filesDeleted |-> 0, spaceSaved |-> 0,
               largeFiles |-> Find(fs, osType, config), errors |-> <<>>],
   fs |-> fs, log |-> <<>>, tests |-> <<>>, moves |-> <<>>]

\* A catch block that pushes the zero counts and no error message.
FailureResultSilent(task) ==
  CASE task = "downloads" ->
         [task |-> task, filesDeleted |-> 0, spaceSaved |-> 0,
          filesOrganized |-> 0, errors |-> <<>>]
    [] task = "largeFiles" ->
         [task |-> task, filesDeleted |-> 0, spaceSaved |-> 0,
          largeFiles |-> <<>>, errors |-> <<>>]
    [] OTHER -> [task |-> task, filesDeleted |-> 0, spaceSaved |-> 0, errors |-> <<>>]

\* The record the catch block of a task operation pushes.
FailureResult(task) ==
  LET base == [task |-> task, filesDeleted |-> 0, spaceSaved |-> 0,
               errors |-> <<ThrownError>>]
  IN CASE task = "downloads" ->
            [task |-> task, filesDeleted |-> 0, spaceSaved |-> 0,
             filesOrganized |-> 0, errors |-> <<ThrownError>>]
       [] task = "largeFiles" ->
            [task |-> task, filesDeleted |-> 0, spaceSaved |-> 0,
             largeFiles |-> <<>>, errors |-> <<ThrownError>>]
       [] OTHER -> base

\* Bounds of the exploration: the task operations called one by one on a
\* manager, and the results a manager may hold when runAllTasks is called.
MaxAdHoc == 1
MaxPrior == 0

\* runAllTasks with the trash emptied before the browser caches are cleaned.
NextTaskSwapped(task) ==
  CASE task = "temp" -> "cache"
    [] task = "cache" -> "trash"
    [] task = "trash" -> "browsers"
    [] task = "browsers" -> "downloads"
    [] task = "downloads" -> "largeFiles"
    [] OTHER -> "summary"

NextTask(task) ==
  CASE task = "temp" -> "cache"
    [] task = "cache" -> "browsers"
    [] task = "browsers" -> "trash"
    [] task = "trash" -> "downloads"
    [] task = "downloads" -> "largeFiles"
    [] OTHER -> "summary"

\* A task operation whose catch block pushes no record.
InvokeDropping(task, run) ==
  /\ \/ pc = "idle" /\ Len(results) < MaxAdHoc
     \/ pc = task
  /\ LET threw == task \in faulty
     IN /\ results' = IF threw THEN results ELSE Append(results, run.result)
        /\ fs' = IF threw THEN fs ELSE run.fs
        /\ hist' = Append(hist, [task |-> task, threw |-> threw, pre |-> fs,
                                 post |-> IF threw THEN fs ELSE run.fs,
                                 log |-> IF threw THEN <<>> ELSE run.log,
                                 tests |-> IF threw THEN <<>> ELSE run.tests,
                                 moves |-> IF threw THEN <<>> ELSE run.moves,
                                 from |-> pc])
  /\ pc' = IF pc = "idle" THEN "idle" ELSE NextTask(task)
  /\ UNCHANGED <<osType, dryRun, config, faulty, initialFs>>

\* A task operation of the manager, called on its own (pc = "idle") or
\* awaited by runAllTasks (pc = task): the cleaner runs and its result is
\* pushed; when it throws, the failure record is pushed instead.
Invoke(task, run) ==
  /\ \/ pc = "idle" /\ Len(results) < MaxAdHoc
     \/ pc = task
  /\ LET threw == task \in faulty
     IN /\ results' = Append(results, IF threw THEN FailureResult(task) ELSE run.result)
        /\ fs' = IF threw THEN fs ELSE run.fs
        /\ hist' = Append(hist, [task |-> task, threw |-> threw, pre |-> fs,
                                 post |-> IF threw THEN fs ELSE run.fs,
                                 log |-> IF threw THEN <<>> ELSE run.log,
                                 tests |-> IF threw THEN <<>> ELSE run.tests,
                                 moves |-> IF threw THEN <<>> ELSE run.moves,
                                 from |-> pc])
  /\ pc' = IF pc = "idle" THEN "idle" ELSE NextTask(task)
  /\ UNCHANGED <<osType, dryRun, config, faulty, initialFs>>

\* CleanupManager.cleanTempFiles
CleanTempFiles == Invoke("temp", RunTemp)

\* CleanupManager.cleanCacheFiles
CleanCacheFiles == Invoke("cache", RunCache)

\* CleanupManager.cleanBrowserCaches
CleanBrowserCaches == Invoke("browsers", RunBrowsers)

\* CleanupManager.emptyTrash
EmptyTrash == Invoke("trash", RunTrash)

\* CleanupManager.organizeDownloads
OrganizeDownloads == Invoke("downloads", RunDownloads)

\* CleanupManager.findLargeFiles
FindLargeFiles == Invoke("largeFiles", RunLargeFiles)

\* CleanupManager.runAllTasks, up to its first await.
RunAllTasks ==
  /\ pc = "idle"
  /\ Len(results) <= MaxPrior
  /\ pc' = "temp"
  /\ UNCHANGED <<osType, dryRun, config, faulty, fs, results, initialFs, hist>>

\* CleanupManager.printSummary, which ends runAllTasks.
PrintSummary ==
  /\ pc = "summary"
  /\ pc' = "idle"
  /\ UNCHANGED <<osType, dryRun, config, faulty, fs, results, initialFs, hist>>

Next ==
  \/ CleanTempFiles
  \/ CleanCacheFiles
  \/ CleanBrowserCaches
  \/ EmptyTrash
  \/ OrganizeDownloads
  \/ FindLargeFiles
  \/ RunAllTasks
  \/ PrintSummary

\* ---------------------------------------------------------------- fixtures
\* The configurations and filesystems the manager is started on.

Ext(e) == <<Dot, e>>

Category(name, extensions) == [name |-> <<name>>, index |-> -1, extensions |-> extensions]

\* A category whose name is the decimal numeral of n.
NumberedCategory(n, extensions) ==
  [name |-> <<ToString(n)>>, index |-> n, extensions |-> extensions]

\* ConfigManager.createDefaultConfig
DefaultConfig(os) ==
  [largeFileThreshold |-> 1024 * 1024 * 1024,
   customTempPaths |-> <<>>,
   customCachePaths |-> <<>>,
   downloadsPath |-> Under(os, HomeDirectory(os), << <<"Downloads">> >>),
   exclusions |-> <<>>,
   browsers |-> [chrome |-> TRUE, firefox |-> TRUE, edge |-> TRUE, safari |-> os = "macos"],
   organizeDownloads |->
     [enabled |-> TRUE,
      categories |->
        << Category("Images", <<Ext("jpg"), Ext("jpeg"), Ext("png"), Ext("gif"), Ext("bmp"),
                                Ext("svg"), Ext("webp"), Ext("ico")>>),
           Category("Videos", <<Ext("mp4"), Ext("avi"), Ext("mkv"), Ext("mov"), Ext("wmv"),
                                Ext("flv"), Ext("webm"), Ext("m4v")>>),
           Category("Audio", <<Ext("mp3"), Ext("wav"), Ext("flac"), Ext("aac"), Ext("ogg"),
                               Ext("wma"), Ext("m4a")>>),
           Category("Documents", <<Ext("pdf"), Ext("doc"), Ext("docx"), Ext("txt"), Ext("rtf"),
                                   Ext("odt"), Ext("pages")>>),
           Category("Spreadsheets", <<Ext("xls"), Ext("xlsx"), Ext("csv"), Ext("ods"),
                                      Ext("numbers")>>),
           Category("Presentations", <<Ext("ppt"), Ext("pptx"), Ext("odp"), Ext("key")>>),
           Category("Archives", <<Ext("zip"), Ext("rar"), Ext("7z"), Ext("tar"), Ext("gz"),
                                  Ext("bz2"), Ext("xz")>>),
           Category("Installers", <<Ext("exe"), Ext("msi"), Ext("dmg"), Ext("pkg"), Ext("deb"),
                                    Ext("rpm"), Ext("appimage")>>),
           Category("Code", <<Ext("js"), Ext("ts"), Ext("html"), Ext("css"), Ext("py"),
                              Ext("java"), Ext("cpp"), Ext("c"), Ext("php"), Ext("rb")>>) >>],
   maxFileAge |-> 0]

File(size, age) == [kind |-> "file", size |-> size, age |-> age,
                    readable |-> TRUE, writable |-> TRUE, removable |-> TRUE]

\* The canonical path of names below base.
At(os, base, names) == Canon(os, Under(os, base, names))

\* The filesystem that holds the entries of a set of <<path, entry>> pairs.
MakeFs(pairs) ==
  [p \in {x[1] : x \in pairs} |-> (CHOOSE x \in pairs : x[1] = p)[2]]

\* The age limit (config.maxFileAge, in days) of the fixtures that set one.
AgeLimit == 5

Young == MsPerDay
AtLimit == AgeLimit * MsPerDay
JustOver == AgeLimit * MsPerDay + 1
Old == (AgeLimit + 1) * MsPerDay

Fixture(cfg, pairs) == [config |-> cfg, faulty |-> {}, fs |-> MakeFs(pairs)]

\* A flat temp directory: five files that match the temp patterns, two of
\* them of an age that varies.
TempAgePairs(os, age1, age2) ==
  LET T == Canon(os, TempDirectory(os))
  IN { <<T, NewDirectory>>,
       <<At(os, T, << <<"a", Dot, "tmp">> >>), File(1, age1)>>,
       <<At(os, T, << <<"b", Dot, "log">> >>), File(2, age2)>>,
       <<At(os, T, << <<"c", Dot, "bak">> >>), File(4, Old)>>,
       <<At(os, T, << <<"d", Dot, "tmp">> >>), File(8, Old)>>,
       <<At(os, T, << <<"e", Dot, "temp">> >>), File(16, Young)>> }

TempAgeFixtures(os) ==
  { Fixture([DefaultConfig(os) EXCEPT !.maxFileAge = AgeLimit], TempAgePairs(os, a1, a2)) :
      a1 \in {Young, AtLimit, JustOver, Old}, a2 \in {Young, Old} }
  \cup { Fixture(DefaultConfig(os), TempAgePairs(os, Young, Old)) }

\* A temp directory with a subdirectory that holds one temp file, an empty
\* subdirectory, a file that matches no pattern, a file whose name contains
\* "keep", a file that may be read-only and one that may resist unlinking.
TempTreePairs(os, w, r) ==
  LET T == Canon(os, TempDirectory(os))
  IN { <<T, NewDirectory>>,
       <<At(os, T, << <<"sub">> >>), NewDirectory>>,
       <<At(os, T, << <<"sub">>, <<"f", Dot, "tmp">> >>), File(1, Old)>>,
       <<At(os, T, << <<"empty">> >>), NewDirectory>>,
       <<At(os, T, << <<"keep", Dot, "tmp">> >>), File(2, Old)>>,
       <<At(os, T, << <<"note", Dot, "txt">> >>), File(4, Old)>>,
       <<At(os, T, << <<"g", Dot, "tmp">> >>), [File(8, Old) EXCEPT !.writable = w]>>,
       <<At(os, T, << <<"h", Dot, "log">> >>), [File(16, Old) EXCEPT !.removable = r]>> }

KeepExclusion == << <<"keep">> >>

TempTreeFixtures(os) ==
  { Fixture([DefaultConfig(os) EXCEPT !.exclusions = ex], TempTreePairs(os, w, r)) :
      w \in BOOLEAN, r \in BOOLEAN, ex \in {<<>>, KeepExclusion} }

\* The first cache directory of the platform that is no pattern.
CacheRoot(os) ==
  Canon(os, CASE os = "windows" ->
                   Under(os, LocalAppData(os), << <<"Microsoft">>, <<"Windows">>, <<"WebCache">> >>)
              [] os = "macos" -> Under(os, HomeDirectory(os), << <<"Library">>, <<"Caches">> >>)
              [] OTHER -> Under(os, HomeDirectory(os), << <<Dot, "cache">> >>))

BrowserRoot(os) == Canon(os, GetChromePaths(os)[1])

\* A cache directory and a browser cache directory with files in them.
CachePairs(os, age) ==
  LET C == CacheRoot(os)
      B == BrowserRoot(os)
  IN { <<C, NewDirectory>>,
       <<At(os, C, << <<"x", Dot, "cache">> >>), File(1, age)>>,
       <<At(os, C, << <<"d">> >>), NewDirectory>>,
       <<At(os, C, << <<"d">>, <<"y", Dot, "log">> >>), File(2, Old)>>,
       <<At(os, C, << <<"z", Dot, "txt">> >>), File(4, Old)>>,
       <<B, NewDirectory>>,
       <<At(os, B, << <<"data_0">> >>), File(8, age)>>,
       <<At(os, B, << <<"index">> >>), File(16, Old)>> }

CacheFixtures(os) ==
  { Fixture([DefaultConfig(os) EXCEPT !.maxFileAge = limit], CachePairs(os, age)) :
      limit \in {0, AgeLimit}, age \in {AtLimit, Old} }

\* The most files, and the most sidecars, of a trash fixture.
MaxTrash == 2

TrashRoot(os) == Canon(os, GetTrashPaths(os)[1])

\* Where the platform's trash layout keeps the discarded content.
TrashContent(os) ==
  CASE os = "windows" -> At(os, TrashRoot(os), << <<"S-", "1">> >>)
    [] os = "macos" -> TrashRoot(os)
    [] OTHER -> At(os, TrashRoot(os), << <<"files">> >>)

Pow2(n) == 2 ^ n

\* A trash root in the platform's layout: k discarded files, on Linux m
\* sidecars in info/, and optionally a discarded directory with a file.
TrashPairs(os, k, m, nested) ==
  LET R == TrashRoot(os)
      F == TrashContent(os)
  IN { <<R, NewDirectory>>, <<F, NewDirectory>> }
     \cup { <<At(os, F, << <<"t", ToString(i)>> >>), File(Pow2(i), Young)>> : i \in 1..k }
     \cup (IF os = "linux"
           THEN { <<At(os, R, << <<"info">> >>), NewDirectory>> }
                \cup { <<At(os, R, << <<"info">>, <<"t", ToString(i), Dot, "trashinfo">> >>),
                         File(Pow2(MaxTrash + 1 + i), Young)>> : i \in 1..m }
           ELSE {})
     \cup (IF nested
           THEN { <<At(os, F, << <<"dir">> >>), NewDirectory>>,
                  <<At(os, F, << <<"dir">>, <<"inner">> >>), File(1, Young)>> }
           ELSE {})

TrashFixtures(os) ==
  { Fixture(DefaultConfig(os), TrashPairs(os, k, m, nested)) :
      k \in 0..MaxTrash, m \in 0..MaxTrash, nested \in BOOLEAN }

\* A trash root in the platform's layout that holds a discarded directory
\* dir with a file and a subdirectory sub with a file, and an empty
\* directory other; with hidden, sub also holds a file whose name starts
\* with ".".
NestedTrashPairs(os, hidden) ==
  LET R == TrashRoot(os)
      F == TrashContent(os)
  IN { <<R, NewDirectory>>, <<F, NewDirectory>>,
       <<At(os, F, << <<"dir">> >>), NewDirectory>>,
       <<At(os, F, << <<"dir">>, <<"inner">> >>), File(1, Young)>>,
       <<At(os, F, << <<"dir">>, <<"sub">> >>), NewDirectory>>,
       <<At(os, F, << <<"dir">>, <<"sub">>, <<"deep">> >>), File(2, Young)>>,
       <<At(os, F, << <<"other">> >>), NewDirectory>> }
     \cup (IF hidden
           THEN { <<At(os, F, << <<"dir">>, <<"sub">>, <<Dot, "DS_Store">> >>),
                    File(4, Young)>> }
           ELSE {})

NestedTrashFixtures(os) ==
  { Fixture(DefaultConfig(os), NestedTrashPairs(os, hidden)) : hidden \in BOOLEAN }

\* A trash root that only a wildcard entry of getTrashPaths names: the
\* .Trashes folder of the volume usb on macOS, /tmp/.Trash-1000 on Linux,
\* with one discarded file; with literal, also one whose name has a "*"
\* where the pattern has it.  Windows has no wildcard entry.
WildcardTrashPairs(os, literal) ==
  LET volume(name) ==
        { <<At(os, <<Slash, "Volumes">>, << <<name>> >>), NewDirectory>>,
          <<At(os, <<Slash, "Volumes">>, << <<name>>, <<Dot, "Trashes">> >>), NewDirectory>>,
          <<At(os, <<Slash, "Volumes">>, << <<name>>, <<Dot, "Trashes">>, <<"t", "1">> >>),
            File(1, Young)>> }
      xdg(id) ==
        { <<At(os, <<Slash, "tmp">>, << <<Dot, "Trash-", id>> >>), NewDirectory>>,
          <<At(os, <<Slash, "tmp">>, << <<Dot, "Trash-", id>>, <<"files">> >>), NewDirectory>>,
          <<At(os, <<Slash, "tmp">>, << <<Dot, "Trash-", id>>, <<"files">>, <<"t", "1">> >>),
            File(1, Young)>>,
          <<At(os, <<Slash, "tmp">>, << <<Dot, "Trash-", id>>, <<"info">> >>), NewDirectory>> }
  IN CASE os = "macos" ->
            { <<<<Slash, "Volumes">>, NewDirectory>> } \cup volume("usb")
            \cup (IF literal THEN volume(Star) ELSE {})
       [] os = "linux" ->
            { <<<<Slash, "tmp">>, NewDirectory>> } \cup xdg("1000")
            \cup (IF literal THEN xdg(Star) ELSE {})
       [] OTHER -> {}

WildcardTrashFixtures(os) ==
  IF os = "windows" THEN {}
  ELSE { Fixture(DefaultConfig(os), WildcardTrashPairs(os, literal)) : literal \in BOOLEAN }

\* The second trash root of the fixtures: /.Trashes on macOS, the RECYCLER
\* folder of drive C: on Windows, /tmp/.Trash-1000 on Linux.
SecondTrashContent(os) ==
  CASE os = "windows" -> At(os, <<"C:", BackSlash, "RECYCLER">>, << <<"S-", "2">> >>)
    [] os = "macos" -> <<Slash, Dot, "Trashes">>
    [] OTHER -> <<Slash, "tmp", Slash, Dot, "Trash-", "1000", Slash, "files">>

Unreadable == [NewDirectory EXCEPT !.readable = FALSE]

\* Two trash roots with one discarded file each; the root numbered failing
\* also holds a directory that cannot be read.  On Linux the second root is
\* reached through a directory that is named as the wildcard entry is.
FailingTrashPairs(os, failing) ==
  LET F == TrashContent(os)
      G == SecondTrashContent(os)
      B == IF failing = 1 THEN F ELSE G
  IN TrashPairs(os, 1, 1, FALSE)
     \cup (IF os = "linux" THEN WildcardTrashPairs(os, TRUE)
          ELSE IF os = "windows"
          THEN { <<Canon(os, <<"C:", BackSlash, "RECYCLER">>), NewDirectory>>,
                 <<G, NewDirectory>> }
          ELSE { <<G, NewDirectory>> })
     \cup { <<At(os, G, << <<"u", "1">> >>), File(32, Young)>>,
            <<At(os, B, << <<"locked">> >>), Unreadable>>,
            <<At(os, B, << <<"locked">>, <<"v", "1">> >>), File(64, Young)>> }

FailingTrashFixtures(os) ==
  { Fixture(DefaultConfig(os), FailingTrashPairs(os, failing)) : failing \in 1..2 }

\* A temp directory with a temp file and a directory that cannot be read,
\* and a downloads folder that cannot be read, with one picture.
UnreadablePairs(os) ==
  LET T == Canon(os, TempDirectory(os))
      D == Canon(os, DefaultConfig(os).downloadsPath)
  IN { <<T, NewDirectory>>,
       <<At(os, T, << <<"a", Dot, "tmp">> >>), File(1, Old)>>,
       <<At(os, T, << <<"locked">> >>), Unreadable>>,
       <<At(os, T, << <<"locked">>, <<"b", Dot, "tmp">> >>), File(2, Old)>>,
       <<D, Unreadable>>,
       <<At(os, D, << <<"photo", Dot, "jpg">> >>), File(4, Old)>> }

UnreadableFixtures(os) == { Fixture(DefaultConfig(os), UnreadablePairs(os)) }

\* A temp directory with a temp file that cannot be stat'ed, one without
\* write access, and a subdirectory that holds two files no temp pattern
\* matches, one of which cannot be stat'ed.
LockedPairs(os) ==
  LET T == Canon(os, TempDirectory(os))
  IN { <<T, NewDirectory>>,
       <<At(os, T, << <<"u", Dot, "tmp">> >>), [File(2, Old) EXCEPT !.readable = FALSE]>>,
       <<At(os, T, << <<"w", Dot, "tmp">> >>), [File(1, Old) EXCEPT !.writable = FALSE]>>,
       <<At(os, T, << <<"work">> >>), NewDirectory>>,
       <<At(os, T, << <<"work">>, <<"a", Dot, "bin">> >>), File(4, Old)>>,
       <<At(os, T, << <<"work">>, <<"locked", Dot, "bin">> >>),
         [File(8, Old) EXCEPT !.readable = FALSE]>> }

LockedFixtures(os) == { Fixture(DefaultConfig(os), LockedPairs(os)) }

\* A directory outside the built-in lists, with one temp file.
Scratch(os) ==
  IF os = "windows" THEN <<"C:", BackSlash, "scratch">> ELSE <<Slash, "scratch">>

ScratchPairs(os) ==
  { <<Canon(os, Scratch(os)), NewDirectory>>,
    <<At(os, Scratch(os), << <<"s", Dot, "tmp">> >>), File(32, Old)>> }

\* The built-in cache path that names the cache directory of the fixtures.
CachePath(os) ==
  LET builtin == GetCachePaths(os, DefaultConfig(os))
  IN builtin[CHOOSE j \in 1..Len(builtin) : Canon(os, builtin[j]) = CacheRoot(os)]

\* Configurations whose custom paths repeat a built-in path: the temp
\* directory after a directory of its own, and the cache directory.
DuplicateFixtures(os) ==
  { Fixture([DefaultConfig(os) EXCEPT !.customTempPaths = <<Scratch(os), TempDirectory(os)>>],
            TempTreePairs(os, w, TRUE) \cup ScratchPairs(os)) : w \in BOOLEAN }
  \cup { Fixture([DefaultConfig(os) EXCEPT !.customCachePaths = <<CachePath(os)>>],
                 CachePairs(os, Old)) }

StandardCategories ==
  << Category("Images", <<Ext("jpg")>>), Category("Documents", <<Ext("pdf")>>) >>

\* Two categories that both list ".pdf".
OverlappingCategories ==
  << Category("Documents", <<Ext("pdf")>>), Category("Images", <<Ext("jpg"), Ext("pdf")>>) >>

\* The same, the second category named by a year.
YearCategories ==
  << Category("Documents", <<Ext("pdf")>>), NumberedCategory(2024, <<Ext("jpg"), Ext("pdf")>>) >>

\* A downloads folder: photo.jpg, report.pdf and note; with extras, also a
\* hidden file, a file of an unknown extension and one with an upper-case
\* extension; with collision, Images/photo.jpg is there already.
DownloadsPairs(os, cfg, extras, collision) ==
  LET D == Canon(os, cfg.downloadsPath)
  IN { <<D, NewDirectory>>,
       <<At(os, D, << <<"photo", Dot, "jpg">> >>), File(1, Young)>>,
       <<At(os, D, << <<"report", Dot, "pdf">> >>), File(2, Young)>>,
       <<At(os, D, << <<"note">> >>), File(4, Young)>> }
     \cup (IF extras
           THEN { <<At(os, D, << <<Dot, "hid", Dot, "jpg">> >>), File(8, Young)>>,
                  <<At(os, D, << <<"data", Dot, "xyz">> >>), File(16, Young)>>,
                  <<At(os, D, << <<"pic", Dot, "JPG">> >>), File(32, Young)>> }
           ELSE {})
     \cup (IF collision
           THEN { <<At(os, D, << <<"Images">> >>), NewDirectory>>,
                  <<At(os, D, << <<"Images">>, <<"photo", Dot, "jpg">> >>), File(64, Old)>> }
           ELSE {})

WithCategories(os, cats, enabled) ==
  [DefaultConfig(os) EXCEPT !.organizeDownloads = [enabled |-> enabled, categories |-> cats]]

DownloadsFixtures(os) ==
  { Fixture(WithCategories(os, cats, TRUE),
            DownloadsPairs(os, DefaultConfig(os), extras, collision)) :
      cats \in {StandardCategories, OverlappingCategories, YearCategories},
      extras \in BOOLEAN, collision \in BOOLEAN }
  \cup { Fixture(WithCategories(os, StandardCategories, FALSE),
                 DownloadsPairs(os, DefaultConfig(os), FALSE, FALSE)) }

\* A downloads folder with a picture that, with stuck, cannot be unlinked,
\* a document, and a song; with blocked, the name of the song's category
\* is taken by a file.
StuckPairs(os, cfg, stuck, blocked) ==
  LET D == Canon(os, cfg.downloadsPath)
  IN { <<D, NewDirectory>>,
       <<At(os, D, << <<"photo", Dot, "jpg">> >>),
         [File(1, Young) EXCEPT !.removable = ~stuck]>>,
       <<At(os, D, << <<"report", Dot, "pdf">> >>), File(2, Young)>>,
       <<At(os, D, << <<"song", Dot, "mp3">> >>), File(4, Young)>> }
     \cup (IF blocked THEN { <<At(os, D, << <<"Audio">> >>), File(8, Young)>> } ELSE {})

StuckFixtures(os) ==
  { Fixture(DefaultConfig(os), StuckPairs(os, DefaultConfig(os), stuck, blocked)) :
      stuck \in BOOLEAN, blocked \in BOOLEAN }

\* The most names of the form photo.jpg, "photo (1).jpg", ... that the Images
\* folder of a fixture already holds.
MaxTaken == 2

\* A downloads folder with photo.jpg and report.pdf, whose Images folder
\* holds photo.jpg and the first taken - 1 numbered names after it; with
\* numbered, the downloads folder holds a "photo (1).jpg" of its own.
CollisionPairs(os, cfg, taken, numbered) ==
  LET D == Canon(os, cfg.downloadsPath)
      I == At(os, D, << <<"Images">> >>)
  IN { <<D, NewDirectory>>,
       <<At(os, D, << <<"photo", Dot, "jpg">> >>), File(1, Young)>>,
       <<At(os, D, << <<"report", Dot, "pdf">> >>), File(2, Young)>>,
       <<I, NewDirectory>>,
       <<At(os, I, << <<"photo", Dot, "jpg">> >>), File(64, Old)>> }
     \cup { <<At(os, I, << <<"photo", " (", ToString(n), ")", Dot, "jpg">> >>),
              File(64 + n, Old)>> : n \in 1..(taken - 1) }
     \cup (IF numbered
           THEN { <<At(os, D, << <<"photo", " (", "1", ")", Dot, "jpg">> >>), File(4, Young)>> }
           ELSE {})

CollisionFixtures(os) ==
  { Fixture(WithCategories(os, StandardCategories, TRUE),
            CollisionPairs(os, DefaultConfig(os), taken, numbered)) :
      taken \in 1..MaxTaken, numbered \in BOOLEAN }

\* The size threshold (config.largeFileThreshold) of the fixtures that hold
\* large files.
FixtureThreshold == 100

\* A home directory with Documents in it: a file of exactly the threshold
\* size, a smaller one, and large files in a hidden and a system directory.
LargePairs(os) ==
  LET H == Canon(os, HomeDirectory(os))
      big == File(FixtureThreshold, Young)
  IN { <<H, NewDirectory>>,
       <<At(os, H, << <<"Documents">> >>), NewDirectory>>,
       <<At(os, H, << <<"Documents">>, <<"big", Dot, "iso">> >>), big>>,
       <<At(os, H, << <<"Documents">>, <<"small", Dot, "txt">> >>),
         File(FixtureThreshold - 1, Young)>>,
       <<At(os, H, << <<"Documents">>, <<"keep", Dot, "iso">> >>),
         File(FixtureThreshold + 1, Young)>>,
       <<At(os, H, << <<Dot, "hidden">> >>), NewDirectory>>,
       <<At(os, H, << <<Dot, "hidden">>, <<"big", Dot, "iso">> >>), big>>,
       <<At(os, H, << <<"node_modules">> >>), NewDirectory>>,
       <<At(os, H, << <<"node_modules">>, <<"big", Dot, "iso">> >>), big>> }

LargeFixtures(os) ==
  { Fixture([DefaultConfig(os) EXCEPT !.largeFileThreshold = FixtureThreshold,
                                      !.exclusions = ex], LargePairs(os)) :
      ex \in {<<>>, KeepExclusion} }

\* A directory above the system paths of the platform ("C:" on Windows,
\* /usr elsewhere) with a large file in a directory whose path starts with
\* a system path and one in a directory whose path does not.
SystemPairs(os) ==
  LET top == IF os = "windows" THEN <<"C:">> ELSE <<Slash, "usr">>
      sys == CASE os = "windows" -> <<"Windows", Dot, "old">>
               [] os = "macos" -> <<"bin">>
               [] OTHER -> <<"lib64">>
      big == File(FixtureThreshold, Young)
  IN { <<top, NewDirectory>>,
       <<At(os, top, <<sys>>), NewDirectory>>,
       <<At(os, top, <<sys, <<"big", Dot, "iso">> >>), big>>,
       <<At(os, top, << <<"local">> >>), NewDirectory>>,
       <<At(os, top, << <<"local">>, <<"big", Dot, "iso">> >>), big>> }

SystemFixtures(os) ==
  { Fixture([DefaultConfig(os) EXCEPT !.largeFileThreshold = FixtureThreshold,
                                      !.exclusions = KeepExclusion],
            LargePairs(os) \cup SystemPairs(os)) }

\* How many directories past MaxDepth the deepest chain of a fixture goes.
MaxExtra == 2

\* The names of a chain of n directories, the first one named top.
Chain(top, n) == Listed([i \in 1..n |-> IF i = 1 THEN <<top>> ELSE <<"d">>], n)

\* A home directory with a chain of n directories below it, the first one
\* named top: a file of the threshold size in the last directory of the
\* chain, and a larger one in the directory above it.
DeepPairs(os, top, n) ==
  LET H == Canon(os, HomeDirectory(os))
  IN { <<H, NewDirectory>> }
     \cup { <<At(os, H, Chain(top, k)), NewDirectory>> : k \in 1..n }
     \cup { <<At(os, H, Chain(top, n) \o << <<"deep", Dot, "iso">> >>),
              File(FixtureThreshold, Young)>>,
            <<At(os, H, Chain(top, n - 1) \o << <<"up", Dot, "iso">> >>),
              File(FixtureThreshold + 1, Young)>> }

DeepFixtures(os) ==
  { Fixture([DefaultConfig(os) EXCEPT !.largeFileThreshold = FixtureThreshold],
            DeepPairs(os, top, MaxDepth + extra)) :
      top \in {"Documents", "work"}, extra \in 0..MaxExtra }

\* An entry for which neither isFile() nor isDirectory() holds: a symbolic
\* link, as fs.readdir with withFileTypes reports it.
SymbolicLink == [NewDirectory EXCEPT !.kind = "link"]

\* Below Documents: a symbolic link back to the home directory, a directory
\* that cannot be read with a large file in it, a directory that can with
\* another, and a large file that cannot be stat'ed.
CyclePairs(os) ==
  LET H == Canon(os, HomeDirectory(os))
      big == File(FixtureThreshold, Young)
      In(names) == At(os, H, << <<"Documents">> >> \o names)
  IN { <<H, NewDirectory>>,
       <<In(<<>>), NewDirectory>>,
       <<In(<< <<"loop">> >>), SymbolicLink>>,
       <<In(<< <<"locked">> >>), Unreadable>>,
       <<In(<< <<"locked">>, <<"big", Dot, "iso">> >>), big>>,
       <<In(<< <<"locked">>, <<"sub">> >>), NewDirectory>>,
       <<In(<< <<"open">> >>), NewDirectory>>,
       <<In(<< <<"open">>, <<"big", Dot, "iso">> >>), big>>,
       <<In(<< <<"open">>, <<"back">> >>), SymbolicLink>>,
       <<In(<< <<"secret", Dot, "iso">> >>), [big EXCEPT !.readable = FALSE]>> }

\* The links and the unreadable directory next to a chain of directories
\* that goes one past the depth cap.
CycleFixtures(os) ==
  { Fixture([DefaultConfig(os) EXCEPT !.largeFileThreshold = FixtureThreshold],
            CyclePairs(os) \cup DeepPairs(os, "work", MaxDepth + 1)) }

\* An age limit, young files in the trash, and a temp directory with a
\* young file and an old one.
AgedTrashFixtures(os) ==
  { Fixture([DefaultConfig(os) EXCEPT !.maxFileAge = AgeLimit],
            TrashPairs(os, MaxTrash, 1, TRUE) \cup TempAgePairs(os, Young, Old)) }

\* The most tasks whose cleaner throws.
MaxFaulty == 1

\* Something for every task, and the cleaners of some tasks throwing.
FaultFixtures(os) ==
  LET cfg == [WithCategories(os, StandardCategories, TRUE)
                EXCEPT !.largeFileThreshold = FixtureThreshold]
      pairs == TempAgePairs(os, Old, Old) \cup CachePairs(os, Old)
               \cup TrashPairs(os, 1, 1, FALSE)
               \cup DownloadsPairs(os, cfg, FALSE, FALSE) \cup LargePairs(os)
  IN { [Fixture(cfg, pairs) EXCEPT !.faulty = S] :
         S \in {X \in SUBSET Tasks : Cardinality(X) <= MaxFaulty} }

Fixtures(os) ==
  TempAgeFixtures(os) \cup TempTreeFixtures(os) \cup LockedFixtures(os)
  \cup CacheFixtures(os) \cup DuplicateFixtures(os)
  \cup TrashFixtures(os) \cup NestedTrashFixtures(os) \cup WildcardTrashFixtures(os)
  \cup FailingTrashFixtures(os) \cup UnreadableFixtures(os)
  \cup DownloadsFixtures(os) \cup CollisionFixtures(os) \cup StuckFixtures(os)
  \cup LargeFixtures(os) \cup SystemFixtures(os) \cup DeepFixtures(os)
  \cup CycleFixtures(os) \cup AgedTrashFixtures(os)
  \cup FaultFixtures(os)

\* The manager as its constructor leaves it, on one of the fixtures.
Init ==
  \E os \in OSTypes, dry \in BOOLEAN :
    \E fx \in Fixtures(os) :
      /\ osType = os
      /\ dryRun = dry
      /\ config = fx.config
      /\ faulty = fx.faulty
      /\ fs = fx.fs
      /\ results = <<>>
      /\ pc = "idle"
      /\ initialFs = fx.fs
      /\ hist = <<>>

Spec == Init /\ [][Next]_vars

\* ------------------------------------------------------------------ claims
\* hist[i] is the i-th call of a task operation: the task, whether its
\* cleaner threw, the filesystem before and after, the deleteFile calls
\* (log), the isDirectoryEmpty calls (tests) and the moves it made, and pc
\* when it was called ("idle" for a call from outside runAllTasks).  The
\* call pushed results[i].

Calls == 1..Len(hist)

FilesOf(f) == {p \in DOMAIN f : f[p].kind = "file"}

\* The entries call i took away.
Removed(i) == DOMAIN hist[i].pre \ DOMAIN hist[i].post

CleanerTasks == {"temp", "cache", "browsers", "trash"}

\* What the cleaner of a task reports on filesystem f.
Report(task, f, dry) ==
  CASE task = "temp" -> TempClean(f, osType, config, dry)
    [] task = "cache" -> CacheClean(f, osType, config, dry)
    [] task = "browsers" -> BrowserClean(f, osType, config, dry)
    [] OTHER -> TrashClean(f, osType, config, dry)

\* C1: on a dry run, whatever task operations have been called, the
\* filesystem is the one the run started on: no call has removed, moved or
\* created a file or a directory.
C1_DryRunFrame ==
  dryRun => /\ fs = initialFs
            /\ \A i \in Calls : hist[i].post = hist[i].pre

\* A dry runAllTasks has ended, whose temp task reported deletions and whose
\* downloads task reported organized files.
C1_Witness ==
  /\ dryRun
  /\ pc = "summary"
  /\ \E i \in Calls : results[i].task = "temp" /\ results[i].filesDeleted > 0
  /\ \E j \in Calls : results[j].task = "downloads" /\ results[j].filesOrganized > 0

\* C2: what a task reports on a dry run (filesDeleted, spaceSaved,
\* filesOrganized) is what the same task reports on a live run from the same
\* filesystem and configuration, when nothing fails on that live run.
C2_DryRunReportsLive ==
  \A i \in Calls :
    (dryRun /\ ~hist[i].threw) =>
      /\ hist[i].task \in CleanerTasks =>
           (Report(hist[i].task, hist[i].pre, FALSE).errors = <<>> =>
              /\ results[i].filesDeleted
                   = Report(hist[i].task, hist[i].pre, FALSE).filesDeleted
              /\ results[i].spaceSaved
                   = Report(hist[i].task, hist[i].pre, FALSE).spaceSaved)
      /\ hist[i].task = "downloads" =>
           (Organize(hist[i].pre, osType, config, FALSE).errors = <<>> =>
              results[i].filesOrganized
                = Organize(hist[i].pre, osType, config, FALSE).filesOrganized)

\* C3: on a live run the spaceSaved of a temp, cache, browser or trash
\* result is the sum of the sizes, before the call, of the files the call
\* removed.
C3_SpaceSavedIsRemovedSize ==
  \A i \in Calls :
    (~dryRun /\ ~hist[i].threw /\ hist[i].task \in CleanerTasks) =>
      results[i].spaceSaved = SumSizes(hist[i].pre, Removed(i) \cap FilesOf(hist[i].pre))

LinuxTrashFiles == At("linux", TrashRoot("linux"), << <<"files">> >>)

LinuxTrashInfo == At("linux", TrashRoot("linux"), << <<"info">> >>)

\* The files directly in files/ of the XDG trash root of f.
TrashedFiles(f) == {p \in FilesOf(f) : IsChild(p, LinuxTrashFiles)}

\* The .trashinfo files directly in info/ of the XDG trash root of f.
Sidecars(f) ==
  {p \in FilesOf(f) : /\ IsChild(p, LinuxTrashInfo)
                      /\ Len(p) > 2
                      /\ SubSeq(p, Len(p) - 1, Len(p)) = <<Dot, "trashinfo">>}

\* files/ of the trash root of f holds files only, and they and the
\* sidecars can be deleted.
PlainLinuxTrash(f) ==
  /\ LinuxTrashFiles \in DOMAIN f
  /\ LinuxTrashInfo \in DOMAIN f
  /\ \A p \in DOMAIN f : IsUnder(p, LinuxTrashFiles) => p \in TrashedFiles(f)
  /\ \A p \in TrashedFiles(f) \cup Sidecars(f) : f[p].writable /\ f[p].removable

\* C4: a live trash task on Linux, on an XDG trash root with k files in
\* files/ and m sidecars in info/, deletes them all and reports
\* filesDeleted = k + m.
C4_LinuxTrashCount ==
  \A i \in Calls :
    (/\ osType = "linux" /\ ~dryRun /\ ~hist[i].threw /\ hist[i].task = "trash"
     /\ PlainLinuxTrash(hist[i].pre)) =>
      /\ \A p \in TrashedFiles(hist[i].pre) \cup Sidecars(hist[i].pre) :
           p \notin DOMAIN hist[i].post
      /\ results[i].filesDeleted
           = Cardinality(TrashedFiles(hist[i].pre)) + Cardinality(Sidecars(hist[i].pre))

\* The absolute path p contains a configured exclusion.
Excluded(p) ==
  \E j \in 1..Len(config.exclusions) : Includes(p, config.exclusions[j])

\* C5: no call of any task deletes or moves an entry whose absolute path
\* contains a configured exclusion string.
C5_ExclusionProtects ==
  \A i \in Calls :
    \A p \in DOMAIN hist[i].pre :
      Excluded(p) => p \in DOMAIN hist[i].post /\ hist[i].post[p] = hist[i].pre[p]

AgeTasks == {"temp", "cache", "browsers"}

\* An age, in milliseconds, is over the configured limit.
OverAge(age) == config.maxFileAge = 0 \/ age > config.maxFileAge * MsPerDay

TempRoot == Canon(osType, TempDirectory(osType))

\* f holds the temp directory and files directly in it with the extensions
\* tmp, temp, log and bak, nothing else.
FlatTemp(f) ==
  /\ TempRoot \in DOMAIN f
  /\ \A p \in DOMAIN f \ {TempRoot} :
       /\ f[p].kind = "file"
       /\ IsChild(p, TempRoot)
       /\ Len(p) > 2
       /\ p[Len(p) - 1] = Dot
       /\ p[Len(p)] \in {"tmp", "temp", "log", "bak"}

\* C6: the temp, cache and browser tasks hand a file to deleteFile only when
\* its age is strictly over maxFileAge days (any age when maxFileAge is 0),
\* so a live call removes no younger file; a live temp task on a flat temp
\* directory removes every file over the limit and reports their number.
C6_AgeFilter ==
  \A i \in Calls :
    (hist[i].task \in AgeTasks /\ ~hist[i].threw) =>
      /\ \A n \in 1..Len(hist[i].log) : OverAge(hist[i].log[n].age)
      /\ \A p \in Removed(i) \cap FilesOf(hist[i].pre) : OverAge(hist[i].pre[p].age)
      /\ (~dryRun /\ hist[i].task = "temp" /\ FlatTemp(hist[i].pre)) =>
           /\ \A p \in FilesOf(hist[i].pre) :
                OverAge(hist[i].pre[p].age) => p \notin DOMAIN hist[i].post
           /\ results[i].filesDeleted
                = Cardinality({p \in FilesOf(hist[i].pre) : OverAge(hist[i].pre[p].age)})

\* A live temp task with maxFileAge = AgeLimit has run on a flat temp
\* directory with three files over the limit and two not over it, one of
\* these exactly at the limit: it kept that one, deleted one a day older,
\* and reported 3.
C6_Witness ==
  \E i \in Calls :
    /\ ~dryRun /\ hist[i].task = "temp" /\ ~hist[i].threw
    /\ config.maxFileAge = AgeLimit
    /\ FlatTemp(hist[i].pre)
    /\ Cardinality({p \in FilesOf(hist[i].pre) : OverAge(hist[i].pre[p].age)}) = 3
    /\ Cardinality({p \in FilesOf(hist[i].pre) : ~OverAge(hist[i].pre[p].age)}) = 2
    /\ \E p \in FilesOf(hist[i].pre) :
         hist[i].pre[p].age = AgeLimit * MsPerDay /\ p \in DOMAIN hist[i].post
    /\ \E p \in FilesOf(hist[i].pre) :
         hist[i].pre[p].age = (AgeLimit + 1) * MsPerDay /\ p \notin DOMAIN hist[i].post
    /\ results[i].filesDeleted = 3

\* The access check or the removal of deleteFile fails on file p of f.
Fails(f, p) == p \notin DOMAIN f \/ ~f[p].writable \/ ~f[p].removable

\* The "Failed to delete" messages in errors that name path.
DeleteErrors(errors, path) ==
  Len(SelectSeq(errors, LAMBDA e : e.what = "Failed to delete" /\ e.path = path))

\* The deleteFile calls of call i on path that failed.
FailedDeletes(i, path) ==
  Len(SelectSeq(hist[i].log, LAMBDA e : e.path = path /\ e.failure # ""))

\* C7: deleteFile raises nothing to its caller; a live deleteFile that fails
\* answers deleted = false and size = 0, leaves the filesystem as it is, and
\* records one error that names the path, which is in the task's error
\* list once for each failed call.
C7_DeleteFileNeverRaises ==
  /\ \A p \in FilesOf(initialFs) :
       /\ ~DeleteFile(fs, osType, dryRun, p).raised
       /\ (~dryRun /\ Fails(fs, p)) =>
            /\ ~DeleteFile(fs, osType, dryRun, p).deleted
            /\ DeleteFile(fs, osType, dryRun, p).size = 0
            /\ DeleteFile(fs, osType, dryRun, p).fs = fs
            /\ Len(DeleteFile(fs, osType, dryRun, p).errors) = 1
            /\ DeleteFile(fs, osType, dryRun, p).errors[1].path = p
       /\ (~dryRun /\ ~Fails(fs, p)) =>
            /\ DeleteFile(fs, osType, dryRun, p).deleted
            /\ DeleteFile(fs, osType, dryRun, p).errors = <<>>
  /\ \A i \in Calls :
       /\ \A n \in 1..Len(hist[i].log) :
            /\ ~hist[i].log[n].raised
            /\ (~dryRun /\ hist[i].log[n].failure # "") =>
                 /\ ~hist[i].log[n].deleted
                 /\ hist[i].log[n].size = 0
                 /\ Len(hist[i].log[n].errors) = 1
                 /\ hist[i].log[n].errors[1].path = hist[i].log[n].path
       /\ (~dryRun /\ ~hist[i].threw) =>
            \A n \in 1..Len(hist[i].log) :
              DeleteErrors(results[i].errors, hist[i].log[n].path)
                = FailedDeletes(i, hist[i].log[n].path)

\* A live task has called deleteFile on a read-only file, which failed
\* and left an error in the task's result, and has deleted another file,
\* on which deleteFile now fails because it is gone.
C7_Witness ==
  /\ ~dryRun
  /\ \E i \in Calls :
       /\ \E n \in 1..Len(hist[i].log) :
            hist[i].log[n].failure = "EACCES" /\ ~hist[i].log[n].deleted
       /\ \E n \in 1..Len(hist[i].log) :
            hist[i].log[n].failure = "EPERM" /\ ~hist[i].log[n].deleted
       /\ Len(results[i].errors) >= 2
  /\ \E p \in FilesOf(initialFs) : p \notin DOMAIN fs

\* The calls runAllTasks has made.
Awaited == SelectSeq(hist, LAMBDA h : h.from # "idle")

\* The order of runAllTasks.
ClaimedOrder == <<"temp", "cache", "browsers", "trash", "downloads", "largeFiles">>

\* C8: runAllTasks calls the six task operations one after the other in the
\* order temp, cache, browsers, trash, downloads, largeFiles, each on the
\* filesystem the one before it left; results holds one record per call, in
\* the order of the calls.
C8_RunAllOrder ==
  /\ Len(results) = Len(hist)
  /\ \A i \in Calls : results[i].task = hist[i].task
  /\ \A i \in 1..(Len(hist) - 1) : hist[i + 1].pre = hist[i].post
  /\ Len(Awaited) <= Len(ClaimedOrder)
  /\ \A j \in 1..Len(Awaited) :
       Awaited[j].task = ClaimedOrder[j] /\ Awaited[j].from = ClaimedOrder[j]
  /\ pc \in {"temp", "cache", "browsers", "trash", "downloads", "largeFiles"} =>
       pc = ClaimedOrder[Len(Awaited) + 1]
  /\ pc = "summary" => Len(Awaited) = Len(ClaimedOrder)
  /\ Awaited # <<>> => SubSeq(hist, Len(hist) - Len(Awaited) + 1, Len(hist)) = Awaited

\* runAllTasks has made its six calls.
C8_Witness ==
  /\ pc = "summary"
  /\ [j \in 1..Len(Awaited) |-> Awaited[j].task] = ClaimedOrder
  /\ \E i \in Calls : hist[i].post # hist[i].pre

\* C9: a task whose cleaner throws pushes a result with filesDeleted = 0,
\* spaceSaved = 0 and one error, and leaves the filesystem alone; when
\* runAllTasks made the call it goes on to the next task, and it ends with
\* all six results.
C9_FailureIsolated ==
  /\ \A i \in Calls :
       hist[i].threw =>
         /\ results[i].task = hist[i].task
         /\ results[i].filesDeleted = 0
         /\ results[i].spaceSaved = 0
         /\ Len(results[i].errors) = 1
         /\ hist[i].post = hist[i].pre
  /\ \A j \in 1..Len(Awaited) :
       (Awaited[j].threw /\ j = Len(Awaited)) =>
         IF j < Len(ClaimedOrder) THEN pc = ClaimedOrder[j + 1]
         ELSE pc \in {"summary", "idle"}
  /\ pc = "summary" =>
       \A k \in 1..Len(ClaimedOrder) : \E j \in 1..Len(Awaited) : Awaited[j].task = ClaimedOrder[k]

\* runAllTasks has ended; the cleaner of one of its first five tasks threw,
\* and a task after it deleted files.
C9_Witness ==
  /\ pc = "summary"
  /\ \E j \in 1..Len(Awaited) :
       /\ Awaited[j].threw
       /\ j < Len(ClaimedOrder)
       /\ \E k \in (j + 1)..Len(Awaited) : ~Awaited[k].threw /\ Awaited[k].post # Awaited[k].pre

DownloadsRoot == Canon(osType, config.downloadsPath)

\* The name of the entry with path p: what follows its last "/".
NameOf(p) == SubSeq(p, LastIndexOf(p, Slash) + 1, Len(p))

\* The extension of a name, in lower case: from its last "." on, nothing
\* when it has no "." after its first character.
LowerExtOf(name) ==
  IF LastIndexOf(name, Dot) <= 1 THEN <<>>
  ELSE ToLowerCase(SubSeq(name, LastIndexOf(name, Dot), Len(name)))

\* The categories, in the order the configuration declares them, that list
\* the extension.
Listing(ext) ==
  {c \in 1..Len(config.organizeDownloads.categories) :
     \E e \in 1..Len(config.organizeDownloads.categories[c].extensions) :
       config.organizeDownloads.categories[c].extensions[e] = ext}

\* The organizer leaves the file with this name where it is.
LeftInPlace(name) ==
  \/ LowerExtOf(name) = <<>>
  \/ name[1] = Dot
  \/ Listing(LowerExtOf(name)) = {}

\* The name of the first declared category that lists the extension.
DeclaredCategory(ext) ==
  config.organizeDownloads.categories[CHOOSE c \in Listing(ext) :
                                        \A d \in Listing(ext) : c <= d].name

\* C10: a live downloads task leaves every entry that is no top-level file
\* of the downloads folder as it is; it leaves a top-level file with no
\* extension, with a name that starts with ".", or with an extension no
\* category lists in place, without an error; it moves every other
\* top-level file into the folder of the first category, in the order the
\* configuration declares them, that lists its lower-cased extension; and
\* filesOrganized is the number of files moved.
C10_OrganizerRules ==
  \A i \in Calls :
    (/\ ~dryRun /\ ~hist[i].threw /\ hist[i].task = "downloads"
     /\ config.organizeDownloads.enabled /\ DownloadsRoot \in DOMAIN hist[i].pre) =>
      /\ \A p \in DOMAIN hist[i].pre :
           ~(hist[i].pre[p].kind = "file" /\ IsChild(p, DownloadsRoot)) =>
             p \in DOMAIN hist[i].post /\ hist[i].post[p] = hist[i].pre[p]
      /\ \A p \in FilesOf(hist[i].pre) :
           (IsChild(p, DownloadsRoot) /\ LeftInPlace(NameOf(p))) =>
             /\ p \in DOMAIN hist[i].post /\ hist[i].post[p] = hist[i].pre[p]
             /\ \A e \in 1..Len(results[i].errors) : results[i].errors[e].path # p
      /\ \A p \in FilesOf(hist[i].pre) :
           (IsChild(p, DownloadsRoot) /\ ~LeftInPlace(NameOf(p))) =>
             /\ p \notin DOMAIN hist[i].post
             /\ \E q \in DOMAIN hist[i].post \ DOMAIN hist[i].pre :
                  /\ IsChild(q, DownloadsRoot \o <<Slash>>
                                  \o DeclaredCategory(LowerExtOf(NameOf(p))))
                  /\ hist[i].post[q] = hist[i].pre[p]
      /\ results[i].filesOrganized
           = Cardinality({p \in FilesOf(hist[i].pre) :
                            IsChild(p, DownloadsRoot) /\ ~LeftInPlace(NameOf(p))})

\* The folder of a category of the configuration.
CategoryFolders ==
  { DownloadsRoot \o <<Slash>> \o config.organizeDownloads.categories[c].name :
      c \in 1..Len(config.organizeDownloads.categories) }

\* name with " (n)" put before its extension.
Numbered(name, n) ==
  SubSeq(name, 1, LastIndexOf(name, Dot) - 1) \o <<" (", ToString(n), ")">>
  \o SubSeq(name, LastIndexOf(name, Dot), Len(name))

\* The folder a move goes to.
FolderOf(p) == SubSeq(p, 1, LastIndexOf(p, Slash) - 1)

\* C11: a live downloads task moves a file under its own name when the
\* category folder does not hold that name, and otherwise to "name (n).ext"
\* for the smallest n >= 1 whose name the folder does not hold; no move goes
\* to a path that exists, and every file that was in a category folder
\* before the call is there, unchanged, after it.
C11_UniqueNames ==
  \A i \in Calls :
    (~dryRun /\ ~hist[i].threw /\ hist[i].task = "downloads") =>
      /\ \A k \in 1..Len(hist[i].moves) :
           LET m == hist[i].moves[k]
               dir == DownloadsRoot \o <<Slash>> \o m.category
               name == NameOf(m.from)
           IN /\ FolderOf(m.to) = dir
              /\ m.to \notin DOMAIN m.on
              /\ IF dir \o <<Slash>> \o name \notin DOMAIN m.on
                 THEN m.to = dir \o <<Slash>> \o name
                 ELSE \E n \in 1..Cardinality(DOMAIN m.on) :
                        /\ m.to = dir \o <<Slash>> \o Numbered(name, n)
                        /\ \A j \in 1..(n - 1) :
                             dir \o <<Slash>> \o Numbered(name, j) \in DOMAIN m.on
      /\ \A p \in FilesOf(hist[i].pre) :
           (\E d \in CategoryFolders : IsUnder(p, d)) =>
             p \in DOMAIN hist[i].post /\ hist[i].post[p] = hist[i].pre[p]

\* A live downloads task has moved photo.jpg into an Images folder that held
\* photo.jpg and "photo (1).jpg": it went to "photo (2).jpg", and the two
\* files that were there are as they were.
C11_Witness ==
  \E i \in Calls :
    /\ ~dryRun /\ ~hist[i].threw /\ hist[i].task = "downloads"
    /\ \E k \in 1..Len(hist[i].moves) :
         LET m == hist[i].moves[k]
             dir == DownloadsRoot \o <<Slash>> \o m.category
         IN /\ dir \o <<Slash>> \o NameOf(m.from) \in DOMAIN hist[i].pre
            /\ dir \o <<Slash>> \o Numbered(NameOf(m.from), 1) \in DOMAIN hist[i].pre
            /\ m.to = dir \o <<Slash>> \o Numbered(NameOf(m.from), 2)
            /\ m.to \in DOMAIN hist[i].post
            /\ hist[i].post[dir \o <<Slash>> \o NameOf(m.from)]
                 = hist[i].pre[dir \o <<Slash>> \o NameOf(m.from)]

\* The search paths of find that exist on f, as the filesystem knows them.
Seeds(f) ==
  { Canon(osType, GetSearchPaths(osType)[k]) : k \in 1..Len(GetSearchPaths(osType)) }
  \cap DOMAIN f

\* The number of directories between a seed and a file below it.
DirectoriesBelow(p, seed) == Depth(p) - Depth(seed) - 1

\* The paths call i reported as large files.
Reported(i) ==
  { Canon(osType, results[i].largeFiles[k].path) : k \in 1..Len(results[i].largeFiles) }

\* The path of an entry as path.join builds it on the platform.
Native(p) == ReplaceAll(p, Slash, PathSep(osType))

\* The entries from below the seed down to p.
PathFrom(seed, p) == {q \in {SubSeq(p, 1, n) : n \in 1..Len(p)} : q = p \/ IsUnder(p, q)}
                     \ {q \in {SubSeq(p, 1, n) : n \in 1..Len(p)} : q = seed \/ IsUnder(seed, q)}

\* The walk from the seed reaches file p of f: nothing on the way is
\* skipped, every directory on the way can be read, and p can be stat'ed.
Reaches(f, seed, p) ==
  /\ IsUnder(p, seed)
  /\ f[seed].readable
  /\ \A q \in PathFrom(seed, p) :
       /\ q \in DOMAIN f
       /\ f[q].readable
       /\ ~ShouldSkipPath(osType, config, Native(q), NameOf(q))

\* C12: whatever find returns, a file 11 or more directories below a search
\* path is not in it, and a file of the threshold size or more that the walk
\* reaches 10 directories below a search path is.
C12_DepthCap ==
  \A i \in Calls :
    (hist[i].task = "largeFiles" /\ ~hist[i].threw) =>
      \A seed \in Seeds(hist[i].pre) :
        \A p \in FilesOf(hist[i].pre) :
          /\ (IsUnder(p, seed) /\ DirectoriesBelow(p, seed) > MaxDepth) => p \notin Reported(i)
          /\ (/\ Reaches(hist[i].pre, seed, p)
              /\ DirectoriesBelow(p, seed) = MaxDepth
              /\ hist[i].pre[p].size >= config.largeFileThreshold) => p \in Reported(i)

\* The walk from some search path of f reaches file p within the depth cap.
Reachable(f, p) ==
  \E seed \in Seeds(f) : Reaches(f, seed, p) /\ DirectoriesBelow(p, seed) <= MaxDepth

RECURSIVE Orders(_)
\* The sequences that list each element of a set once.
Orders(S) ==
  IF S = {} THEN { <<>> }
  ELSE UNION { { <<x>> \o rest : rest \in Orders(S \ {x}) } : x \in S }

\* The files discovery returns to organize on f.
Discovered(f) ==
  FindFiles(f, config, << PathJoin(osType, <<config.downloadsPath, <<Star>> >>) >>, <<>>).found

\* Where each file of a sequence of moves went, and under which category.
Destinations(moves) ==
  { <<moves[k].from, moves[k].category, moves[k].to>> : k \in 1..Len(moves) }

\* What a live organize does on f when discovery returns the files in the
\* given order.
OrganizedInOrder(f, order) ==
  OrganizeFiles(NothingOrganized(f, <<>>), osType, config, FALSE, order, config.downloadsPath)

\* C14: in whatever order discovery returns the files of the downloads
\* folder, a live downloads task gives every file the category and the
\* destination name that the call gave it, and organizes as many files.
C14_OrderIndependent ==
  \A i \in Calls :
    (/\ ~dryRun /\ ~hist[i].threw /\ hist[i].task = "downloads"
     /\ config.organizeDownloads.enabled /\ DownloadsRoot \in DOMAIN hist[i].pre) =>
      \A order \in Orders({Discovered(hist[i].pre)[k] : k \in 1..Len(Discovered(hist[i].pre))}) :
        /\ Destinations(OrganizedInOrder(hist[i].pre, order).moves) = Destinations(hist[i].moves)
        /\ OrganizedInOrder(hist[i].pre, order).filesOrganized = results[i].filesOrganized

\* The directories of f below directory d.
DirectoriesUnder(f, d) == {q \in DOMAIN f : f[q].kind = "dir" /\ IsUnder(q, d)}

\* The folder the platform's trash strategy empties.
TrashFolder == TrashContent(osType)

\* C15: a trash task tests a directory for emptiness only after it has
\* tested every directory that was below it when the task started; and a
\* live trash task that records no error leaves no directory below the
\* folder its strategy empties.
C15_DeepestFirst ==
  \A i \in Calls :
    (hist[i].task = "trash" /\ ~hist[i].threw) =>
      /\ \A n \in 1..Len(hist[i].tests) :
           \A q \in DirectoriesUnder(hist[i].pre, hist[i].tests[n].path) :
             \E m \in 1..(n - 1) : hist[i].tests[m].path = q
      /\ (~dryRun /\ results[i].errors = <<>> /\ TrashFolder \in DOMAIN hist[i].pre) =>
           DirectoriesUnder(hist[i].post, TrashFolder) = {}

\* The entries of getTrashPaths that are wildcard patterns.
WildcardRoots ==
  { pat \in { GetTrashPaths(osType)[k] : k \in 1..Len(GetTrashPaths(osType)) } :
      Includes(pat, <<Star>>) }

\* The directories of f that a wildcard trash root matches.
MatchedRoots(f) ==
  { d \in DOMAIN f : f[d].kind = "dir" /\ \E pat \in WildcardRoots : GlobMatch(pat, d, FALSE) }

\* The folder of trash root d that the platform's strategy empties.
StrategyFolder(d) == IF osType = "linux" THEN d \o <<Slash, "files">> ELSE d

\* C16: a live trash task hands every existing directory that a wildcard
\* entry of getTrashPaths matches to the platform's strategy, which empties
\* it: the files below it that can be deleted are gone after the call.
C16_WildcardRootsEmptied ==
  \A i \in Calls :
    (~dryRun /\ ~hist[i].threw /\ hist[i].task = "trash") =>
      \A d \in MatchedRoots(hist[i].pre) :
        \A q \in FilesOf(hist[i].pre) :
          (/\ IsUnder(q, StrategyFolder(d))
           /\ hist[i].pre[q].writable /\ hist[i].pre[q].removable
           /\ ~Hidden(NameOf(q))) =>
            /\ q \notin DOMAIN hist[i].post
            /\ \E n \in 1..Len(hist[i].log) : Canon(osType, hist[i].log[n].path) = q

\* The tasks that remove directories they find empty.
SweepingTasks == {"temp", "cache", "browsers"}

\* C17: a temp, cache or browser task calls deleteDirectory on a directory
\* only when isDirectoryEmpty has just answered true on it, and the
\* directory then holds nothing; every directory such a task removes was
\* removed by such a call.
C17_OnlyEmptyDirectories ==
  \A i \in Calls :
    (hist[i].task \in SweepingTasks /\ ~hist[i].threw) =>
      /\ \A n \in 1..Len(hist[i].tests) :
           hist[i].tests[n].called =>
             hist[i].tests[n].empty /\ hist[i].tests[n].holds = {}
      /\ \A d \in Removed(i) :
           hist[i].pre[d].kind = "dir" =>
             \E n \in 1..Len(hist[i].tests) :
               /\ hist[i].tests[n].path = d
               /\ hist[i].tests[n].called
               /\ hist[i].tests[n].holds = {}

\* A live runAllTasks has ended: one of its tasks removed a directory that
\* held a file when the task started, after deleting the file, and one
\* tested a directory that still held a file and left it there.
C17_Witness ==
  /\ ~dryRun
  /\ pc = "summary"
  /\ \E i \in Calls :
       /\ hist[i].task \in SweepingTasks
       /\ \E d \in Removed(i) :
            /\ hist[i].pre[d].kind = "dir"
            /\ \E q \in FilesOf(hist[i].pre) : IsChild(q, d)
  /\ \E i \in Calls :
       /\ hist[i].task \in SweepingTasks
       /\ \E n \in 1..Len(hist[i].tests) :
            /\ ~hist[i].tests[n].called
            /\ \E q \in hist[i].tests[n].holds : hist[i].pre[q].kind = "file"
            /\ hist[i].tests[n].path \in DOMAIN hist[i].post

\* The directories of f.
DirectoriesOf(f) == {p \in DOMAIN f : f[p].kind = "dir"}

\* The files anywhere below directory d of f that can be stat'ed.
FilesBelow(f, d) == {q \in FilesOf(f) : IsUnder(q, d) /\ f[q].readable}

\* Every entry below d hangs from a directory of f, up to d itself.
WholeSubtree(f, d) ==
  \A q \in DOMAIN f : IsUnder(q, d) => \E r \in DirectoriesOf(f) : IsChild(q, r)

\* C18: on any directory of the filesystem, a deleteDirectory that succeeds
\* answers as size the sum of the sizes, before the removal, of the files
\* anywhere below the directory, also when an entry below it cannot be
\* stat'ed (the files that can be are still summed).
C18_DirectorySize ==
  \A d \in DirectoriesOf(fs) :
    WholeSubtree(fs, d) /\ DeleteDirectory(fs, osType, dryRun, d).deleted =>
      DeleteDirectory(fs, osType, dryRun, d).size = SumSizes(fs, FilesBelow(fs, d))

\* C19: on a live run deleteFile reads the size, then checks the write
\* access, then removes: a call that succeeds on a file that can be stat'ed
\* answers the size the file had before the call and the file is gone after
\* it; a call on a file without write access fails and leaves the file, and
\* the rest of the filesystem, in place.  The same holds of every deleteFile
\* call the tasks have made.
C19_SizeAccessRemove ==
  ~dryRun =>
    /\ \A p \in FilesOf(fs) :
         /\ (DeleteFile(fs, osType, dryRun, p).deleted /\ CanStat(fs, p)) =>
              /\ DeleteFile(fs, osType, dryRun, p).size = fs[p].size
              /\ p \notin DOMAIN DeleteFile(fs, osType, dryRun, p).fs
         /\ ~fs[p].writable =>
              /\ ~DeleteFile(fs, osType, dryRun, p).deleted
              /\ DeleteFile(fs, osType, dryRun, p).fs = fs
    /\ \A i \in Calls : \A n \in 1..Len(hist[i].log) :
         /\ (hist[i].log[n].deleted /\ hist[i].log[n].existed) =>
              /\ hist[i].log[n].size = hist[i].log[n].sizeBefore
              /\ hist[i].log[n].gone
         /\ hist[i].log[n].failure = "EACCES" =>
              /\ ~hist[i].log[n].deleted
              /\ ~hist[i].log[n].gone

\* A live task has deleted a file of more than 0 bytes and answered that
\* size, and has failed on a file without write access that is still there.
C19_Witness ==
  /\ ~dryRun
  /\ \E i \in Calls :
       /\ \E n \in 1..Len(hist[i].log) :
            /\ hist[i].log[n].deleted /\ hist[i].log[n].gone
            /\ hist[i].log[n].sizeBefore > 0
            /\ hist[i].log[n].size = hist[i].log[n].sizeBefore
       /\ \E n \in 1..Len(hist[i].log) :
            /\ hist[i].log[n].failure = "EACCES" /\ ~hist[i].log[n].gone
            /\ Canon(osType, hist[i].log[n].path) \in FilesOf(fs)

\* The path list of a task with path lists.
ListedPaths(task) ==
  IF task = "temp" THEN GetTempPaths(osType, config) ELSE GetCachePaths(osType, config)

\* What the loop body of the task's clean does with one entry of its list
\* on filesystem f.
Visit(task, f, path) ==
  IF ~PathExists(f, osType, path) THEN NewAcc(f)
  ELSE IF task = "temp" THEN CleanTempPath(NewAcc(f), osType, config, dryRun, path)
  ELSE CleanCachePath(NewAcc(f), osType, config, dryRun, path)

Total(counts) ==
  LET F[n \in 0..Len(counts)] == IF n = 0 THEN 0 ELSE F[n - 1] + counts[n]
  IN F[Len(counts)]

\* How many entries of a list name the directory of path.
Occurrences(paths, path) ==
  Cardinality({j \in 1..Len(paths) : Canon(osType, paths[j]) = Canon(osType, path)})

\* How many deleteFile calls of call i on path answered deleted = true.
DeletedCount(i, path) ==
  Len(SelectSeq(hist[i].log, LAMBDA e : e.path = path /\ e.deleted))

\* The lists are the built-in entries followed by the custom paths as the
\* configuration gives them, repetitions included.
ListsKeepRepetitions ==
  /\ GetTempPaths(osType, config)
       = GetTempPaths(osType, [config EXCEPT !.customTempPaths = <<>>])
           \o NonEmpty(config.customTempPaths)
  /\ GetCachePaths(osType, config)
       = GetCachePaths(osType, [config EXCEPT !.customCachePaths = <<>>])
           \o NonEmpty(config.customCachePaths)

PathListTasks == {"temp", "cache"}

\* C20 as stated: the lists are the built-in entries followed by the custom
\* paths without deduplication, and a file that a temp or cache call has
\* deleted below a path that is in the list twice or more has been deleted,
\* and counted, twice or more by that call.
C20_CountedTwice ==
  /\ ListsKeepRepetitions
  /\ \A i \in Calls :
       (hist[i].task \in PathListTasks /\ ~hist[i].threw) =>
         \A n \in 1..Len(hist[i].log) :
           \A j \in 1..Len(ListedPaths(hist[i].task)) :
             ( /\ hist[i].log[n].deleted
               /\ Occurrences(ListedPaths(hist[i].task), ListedPaths(hist[i].task)[j]) >= 2
               /\ IsUnder(Canon(osType, hist[i].log[n].path),
                          Canon(osType, ListedPaths(hist[i].task)[j])) )
             => DeletedCount(i, hist[i].log[n].path) >= 2

\* The call that returned last.  hist only grows, so what holds of the
\* last call in every state holds of every call.
LastCall == {i \in Calls : i = Len(hist)}

\* C20: the lists are the built-in entries followed by the custom paths
\* without deduplication, and every entry of the list is visited.  On a dry
\* run the filesDeleted and spaceSaved of a temp or cache call are the sums
\* over the entries of the list, one term for each occurrence of a path, of
\* what the visit of that entry counts; on a live run a file is deleted, and
\* counted, once by a call, however often its path is in the list.
C20_DuplicatePaths ==
  /\ ListsKeepRepetitions
  /\ \A i \in LastCall :
       (dryRun /\ hist[i].task \in PathListTasks /\ ~hist[i].threw) =>
         LET paths == ListedPaths(hist[i].task)
             visits == [j \in 1..Len(paths) |->
                          Visit(hist[i].task, hist[i].pre, paths[j])]
         IN /\ results[i].filesDeleted
                 = Total([j \in 1..Len(paths) |-> visits[j].filesDeleted])
            /\ results[i].spaceSaved
                 = Total([j \in 1..Len(paths) |-> visits[j].spaceSaved])
  /\ \A i \in Calls :
       (~dryRun /\ hist[i].task \in PathListTasks /\ ~hist[i].threw) =>
         \A n \in 1..Len(hist[i].log) :
           hist[i].log[n].deleted => DeletedCount(i, hist[i].log[n].path) = 1

\* A dry temp call, with the temp directory repeated by a custom path that
\* follows another custom path, has counted a file of the temp directory
\* more than once and the file of the other custom path once.
C20_Witness ==
  /\ dryRun
  /\ Len(config.customTempPaths) = 2
  /\ Occurrences(GetTempPaths(osType, config), config.customTempPaths[2]) >= 2
  /\ \E i \in Calls :
       /\ hist[i].task = "temp" /\ ~hist[i].threw
       /\ \E n \in 1..Len(hist[i].log) :
            /\ IsUnder(Canon(osType, hist[i].log[n].path),
                       Canon(osType, config.customTempPaths[2]))
            /\ DeletedCount(i, hist[i].log[n].path) >= 2
       /\ \E n \in 1..Len(hist[i].log) :
            /\ IsUnder(Canon(osType, hist[i].log[n].path),
                       Canon(osType, config.customTempPaths[1]))
            /\ DeletedCount(i, hist[i].log[n].path) = 1
       /\ results[i].spaceSaved > SumSizes(hist[i].pre, FilesOf(hist[i].pre))

\* What the loop body of TrashCleaner.clean does with one entry of
\* getTrashPaths on filesystem f.
TrashVisit(f, path) ==
  IF PathExists(f, osType, path)
  THEN CleanTrashPath(NewAcc(f), osType, config, dryRun, path)
  ELSE NewAcc(f)

\* The visits of all the entries of getTrashPaths, each on f.
TrashVisits(f) ==
  [j \in 1..Len(GetTrashPaths(osType)) |-> TrashVisit(f, GetTrashPaths(osType)[j])]

Concat(seqs) ==
  LET F[n \in 0..Len(seqs)] == IF n = 0 THEN <<>> ELSE F[n - 1] \o seqs[n]
  IN F[Len(seqs)]

\* C21: the trash roots are processed independently of each other: the
\* errors of a trash call are the errors of each root in the order of the
\* list, its counts are the sums of the counts of each root, and it has
\* taken away what each root alone would have lost, whether or not another
\* root of the list recorded an error.
C21_RootFailureIsolated ==
  \A i \in LastCall :
    (hist[i].task = "trash" /\ ~hist[i].threw) =>
      LET visits == TrashVisits(hist[i].pre)
          n == Len(visits)
      IN /\ results[i].errors = Concat([j \in 1..n |-> visits[j].errors])
         /\ results[i].filesDeleted = Total([j \in 1..n |-> visits[j].filesDeleted])
         /\ results[i].spaceSaved = Total([j \in 1..n |-> visits[j].spaceSaved])
         /\ DOMAIN hist[i].post
              = {p \in DOMAIN hist[i].pre : \A j \in 1..n : p \in DOMAIN visits[j].fs}

\* A live trash call on two roots: the glob engine failed on the first,
\* whose error is in the result, and the file of the second is gone.
C21_Witness ==
  /\ ~dryRun
  /\ \E i \in Calls :
       /\ hist[i].task = "trash" /\ ~hist[i].threw
       /\ \E j, k \in 1..Len(GetTrashPaths(osType)) :
            /\ j < k
            /\ TrashVisits(hist[i].pre)[j].errors # <<>>
            /\ TrashVisits(hist[i].pre)[j].errors[1].what = "Failed to find files"
            /\ TrashVisits(hist[i].pre)[k].errors = <<>>
            /\ DOMAIN TrashVisits(hist[i].pre)[k].fs # DOMAIN hist[i].pre
       /\ results[i].errors # <<>>
       /\ At(osType, SecondTrashContent(osType), << <<"u", "1">> >>) \in DOMAIN hist[i].pre
       /\ At(osType, SecondTrashContent(osType), << <<"u", "1">> >>) \notin DOMAIN hist[i].post

\* Patterns as the cleaners write them with path.join: on Windows their
\* separators are backslashes.
JoinedPatterns ==
  { Under(osType, root, names) :
      root \in {TempDirectory(osType), GetTrashPaths(osType)[1],
                Under(osType, GetTrashPaths(osType)[1], << <<"S-", "1">> >>)},
      names \in { << <<Star>> >>, <<GlobStar>>, << GlobStar, <<Star>> >>,
                  << <<"S-", Star>> >> } }

WithForwardSlashes(pat) == ReplaceAll(pat, BackSlash, Slash)

\* The part of C22 about findFiles.
FindFilesNormalizes ==
  \A pat \in JoinedPatterns :
    FindFiles(fs, config, <<pat>>, <<>>)
      = FindFiles(fs, config, <<WithForwardSlashes(pat)>>, <<>>)

TrashFolders == {TrashContent(osType), SecondTrashContent(osType)}

FilesBelowPattern(root) == << Under(osType, root, << GlobStar, <<Star>> >>) >>

DownloadsPattern == << PathJoin(osType, <<config.downloadsPath, <<Star>> >>) >>

FileSearches ==
  {TempFilePatterns(osType, TempDirectory(osType)), DownloadsPattern}
  \cup {FilesBelowPattern(root) : root \in TrashFolders}

DirectorySearches ==
  {<< Under(osType, root, <<GlobStar>>) >> : root \in TrashFolders}

\* The glob engine fails on the search findFiles makes of patterns on f.
FileSearchFails(f, patterns) == GlobThrows(f, NormalizeAll(patterns))

\* The errors of a result that findFiles recorded.
FindErrors(errors) == SelectSeq(errors, LAMBDA e : e.what = "Failed to find files")

\* Call i has called deleteFile or deleteDirectory below root.
ActedBelow(i, root) ==
  \/ \E n \in 1..Len(hist[i].log) : IsUnder(Canon(osType, hist[i].log[n].path), root)
  \/ \E n \in 1..Len(hist[i].tests) :
       hist[i].tests[n].called /\ IsUnder(hist[i].tests[n].path, root)

\* C23: a search on which the glob engine fails answers the empty list and
\* one error; a task whose search of a root failed has called deleteFile
\* and deleteDirectory on nothing below that root and has left everything
\* below it in place, and a downloads call whose search failed has moved
\* nothing and reports the one error of the search.
C23_GlobFailure ==
  /\ \A patterns \in FileSearches :
       FileSearchFails(fs, patterns) =>
         /\ FindFiles(fs, config, patterns, <<>>).found = <<>>
         /\ Len(FindFiles(fs, config, patterns, <<>>).errors) = 1
  /\ \A patterns \in DirectorySearches :
       GlobThrows(fs, patterns) =>
         /\ FindDirectories(fs, config, patterns, <<>>).found = <<>>
         /\ Len(FindDirectories(fs, config, patterns, <<>>).errors) = 1
  /\ \A i \in Calls :
       ~hist[i].threw =>
         /\ (hist[i].task = "temp"
               /\ FileSearchFails(hist[i].pre, TempFilePatterns(osType, TempDirectory(osType)))) =>
              /\ ~ActedBelow(i, Canon(osType, TempDirectory(osType)))
              /\ FindErrors(results[i].errors) # <<>>
         /\ hist[i].task = "trash" =>
              \A root \in TrashFolders :
                FileSearchFails(hist[i].pre, FilesBelowPattern(root)) =>
                  /\ ~ActedBelow(i, root)
                  /\ \A p \in DOMAIN hist[i].pre : IsUnder(p, root) => p \in DOMAIN hist[i].post
         /\ (hist[i].task = "downloads" /\ config.organizeDownloads.enabled
               /\ FileSearchFails(hist[i].pre, DownloadsPattern)) =>
              /\ hist[i].moves = <<>>
              /\ hist[i].post = hist[i].pre
              /\ results[i].filesOrganized = 0
              /\ Len(results[i].errors) = 1
              /\ Len(FindErrors(results[i].errors)) = 1

\* Live temp, trash and downloads calls have each made a search on which
\* the glob engine failed, below a root that holds files.
C23_Witness ==
  /\ ~dryRun
  /\ \E i \in Calls :
       /\ hist[i].task = "temp" /\ ~hist[i].threw
       /\ FileSearchFails(hist[i].pre, TempFilePatterns(osType, TempDirectory(osType)))
       /\ At(osType, TempDirectory(osType), << <<"a", Dot, "tmp">> >>) \in DOMAIN hist[i].post
  /\ \E i \in Calls :
       /\ hist[i].task = "downloads" /\ ~hist[i].threw
       /\ FileSearchFails(hist[i].pre, DownloadsPattern)
       /\ \E p \in FilesOf(hist[i].pre) : IsUnder(p, Canon(osType, config.downloadsPath))

\* The system paths of the platform.
SystemPaths ==
  CASE osType = "windows" -> WindowsSkipPaths
    [] osType = "macos" -> MacosSkipPaths
    [] OTHER -> LinuxSkipPaths

\* Why the scan has to skip entry q, if it has to: "" when it has not.
SkipReason(q) ==
  IF StartsWith(NameOf(q), <<Dot>>) THEN "hidden"
  ELSE IF NameOf(q) \in SystemDirs THEN "system name"
  ELSE IF \E prefix \in SystemPaths : StartsWith(Native(q), prefix) THEN "system path"
  ELSE IF \E k \in 1..Len(config.exclusions) : Includes(Native(q), config.exclusions[k])
       THEN "exclusion"
  ELSE ""

\* The files the traversal of directory seed of f reports.
Traversed(f, seed) ==
  LET found == TraverseDirectory(f, osType, config, Native(seed), 0)
  IN {Canon(osType, found[k].path) : k \in 1..Len(found)}

\* C24: whatever directory the traversal starts from, no entry it reports
\* has a name that starts with ".", a name of the system directory list, a
\* path that starts with a system path of the platform or a path that
\* contains a configured exclusion, and none lies below a directory that
\* has.
C24_SkippedNeverReported ==
  \A seed \in DirectoriesOf(fs) :
    \A p \in Traversed(fs, seed) :
      \A q \in PathFrom(seed, p) : SkipReason(q) = ""

\* The reasons for which a large file of f below directory seed, or a
\* directory above it, has to be skipped.
SkipReasons(f, seed) ==
  { SkipReason(q) : q \in UNION { PathFrom(seed, p) :
      p \in {r \in FilesOf(f) : IsUnder(r, seed) /\ f[r].size >= config.largeFileThreshold} } }

\* find has been called on a home directory that holds large files behind
\* a hidden name, a system directory name and an exclusion, and has
\* reported another; a directory holds one behind a system path.
C24_Witness ==
  /\ \E i \in Calls :
       /\ hist[i].task = "largeFiles" /\ ~hist[i].threw
       /\ Len(results[i].largeFiles) > 0
       /\ {"hidden", "system name", "exclusion"}
            \subseteq SkipReasons(hist[i].pre, Canon(osType, HomeDirectory(osType)))
  /\ \E seed \in DirectoriesOf(fs) :
       /\ "system path" \in SkipReasons(fs, seed)
       /\ Traversed(fs, seed) # {}

\* The top-level files of the downloads folder of f that organize has to
\* move.
Candidates(f) ==
  {p \in FilesOf(f) : IsChild(p, DownloadsRoot) /\ ~LeftInPlace(NameOf(p))}

\* The files call i moved.
MovedFrom(i) == {hist[i].moves[k].from : k \in 1..Len(hist[i].moves)}

\* The "Failed to organize file" errors of call i that name file p.
OrganizeErrors(i, p) ==
  Len(SelectSeq(results[i].errors,
                LAMBDA e : e.what = "Failed to organize file" /\ Canon(osType, e.path) = p))

\* Nothing stands in the way of the move of candidate p of f: the file can
\* be unlinked and the name of its category is not taken by a file.
Movable(f, p) ==
  /\ f[p].removable
  /\ LET folder == DownloadsRoot \o <<Slash>> \o DeclaredCategory(LowerExtOf(NameOf(p)))
     IN folder \in DOMAIN f => f[folder].kind = "dir"

\* A downloads call that got as far as its search, and whose search did not
\* fail.
Searched(i) ==
  /\ hist[i].task = "downloads" /\ ~hist[i].threw
  /\ config.organizeDownloads.enabled
  /\ DownloadsRoot \in DOMAIN hist[i].pre
  /\ ~FileSearchFails(hist[i].pre, DownloadsPattern)

\* C25 as stated: the filesOrganized of a downloads result is the number of
\* files whose move succeeded.
C25_CountIsSucceededMoves ==
  \A i \in Calls :
    Searched(i) => results[i].filesOrganized = Cardinality(MovedFrom(i))

\* C25: on a live run the filesOrganized of a downloads result is the
\* number of files whose move succeeded; a file whose move failed is still
\* in the downloads folder, is named by one error and is not counted; and
\* every file whose move nothing stands in the way of is moved, whatever
\* happened to the others.  On a dry run no move is attempted:
\* filesOrganized is the number of files that have a category, no error is
\* recorded and nothing changes.
C25_OrganizedCountsMoves ==
  \A i \in Calls :
    Searched(i) =>
      /\ ~dryRun =>
           /\ results[i].filesOrganized = Len(hist[i].moves)
           /\ results[i].filesOrganized = Cardinality(MovedFrom(i))
           /\ MovedFrom(i) \subseteq Candidates(hist[i].pre)
           /\ \A k \in 1..Len(hist[i].moves) :
                /\ hist[i].moves[k].from \notin DOMAIN hist[i].post
                /\ hist[i].moves[k].to \in DOMAIN hist[i].post
                /\ hist[i].post[hist[i].moves[k].to] = hist[i].pre[hist[i].moves[k].from]
           /\ \A p \in Candidates(hist[i].pre) :
                /\ p \in MovedFrom(i) => OrganizeErrors(i, p) = 0
                /\ p \notin MovedFrom(i) =>
                     /\ OrganizeErrors(i, p) = 1
                     /\ p \in DOMAIN hist[i].post /\ hist[i].post[p] = hist[i].pre[p]
                /\ Movable(hist[i].pre, p) => p \in MovedFrom(i)
           /\ Len(results[i].errors)
                = Cardinality(Candidates(hist[i].pre) \ MovedFrom(i))
      /\ dryRun =>
           /\ results[i].filesOrganized = Cardinality(Candidates(hist[i].pre))
           /\ hist[i].moves = <<>>
           /\ results[i].errors = <<>>
           /\ hist[i].post = hist[i].pre

\* A live downloads call has moved one file and failed on two: one that
\* cannot be unlinked and one whose category's name is taken by a file.
C25_Witness ==
  /\ ~dryRun
  /\ \E i \in Calls :
       /\ Searched(i)
       /\ results[i].filesOrganized = 1
       /\ Len(results[i].errors) = 2
       /\ \E p \in Candidates(hist[i].pre) :
            ~hist[i].pre[p].removable /\ p \in DOMAIN hist[i].post
       /\ \E p \in Candidates(hist[i].pre) :
            /\ hist[i].pre[p].removable /\ ~Movable(hist[i].pre, p)
            /\ p \in DOMAIN hist[i].post

\* The directory an entry lies in.
ParentOf(p) == SubSeq(p, 1, LastIndexOf(p, Slash) - 1)

\* The number of directory levels from a seed down to an entry below it.
LevelsBelow(p, seed) == Depth(p) - Depth(seed)

\* The directories the traversal of f from a seed calls fs.readdir on.
ReadsFrom(f, seed) == TraverseReads(f, osType, config, Native(seed), 0)

\* The set of the directories of a sequence of reads.
ReadSet(reads) == {reads[k] : k \in 1..Len(reads)}

\* The traversal steps over entry q of f: shouldSkipPath holds for it.
Skipped(q) == ShouldSkipPath(osType, config, Native(q), NameOf(q))

\* The large-file finder is not one of the cleaners made to throw.
FinderRuns(i) == hist[i].task = "largeFiles" /\ "largeFiles" \notin faulty

\* C26: the traversal from a seed ends after reading each directory at
\* most once, so after no more reads than the tree has directories: it
\* reads directories only, never a symbolic link, and none more than 10
\* levels below the seed it started from.  A directory below the seed is
\* read exactly when the directory it lies in was read and could be read,
\* it is not skipped and it is within the 10 levels, whatever became of the
\* entries next to it; the files reported are the large files that can be
\* stat'ed in the directories that were read and could be.  find raises
\* nothing and records no error over an unreadable directory.
C26_BoundedTraversal ==
  /\ \A seed \in Seeds(fs) :
       LET reads == ReadsFrom(fs, seed)
           R == ReadSet(reads)
           Open(d) == d \in R /\ fs[d].kind = "dir" /\ fs[d].readable
       IN /\ Len(reads) = Cardinality(R)
          /\ Len(reads) <= Cardinality(DirectoriesOf(fs)) + 1
          /\ \A d \in R \ {seed} :
               /\ d \in DirectoriesOf(fs)
               /\ IsUnder(d, seed)
               /\ LevelsBelow(d, seed) <= MaxDepth
          /\ \A d \in DirectoriesOf(fs) :
               IsUnder(d, seed) =>
                 (d \in R <=> /\ Open(ParentOf(d))
                              /\ ~Skipped(d)
                              /\ LevelsBelow(d, seed) <= MaxDepth)
          /\ Traversed(fs, seed)
               = { p \in FilesOf(fs) :
                     /\ Open(ParentOf(p))
                     /\ ~Skipped(p)
                     /\ fs[p].readable
                     /\ fs[p].size >= config.largeFileThreshold }
  /\ \A i \in LastCall :
       FinderRuns(i) =>
         /\ ~hist[i].threw
         /\ results[i].errors = <<>>
         /\ hist[i].post = hist[i].pre
         /\ Reported(i) = UNION { Traversed(hist[i].pre, seed) : seed \in Seeds(hist[i].pre) }

\* find has returned from a home directory that holds symbolic links back
\* up the tree, a directory that cannot be read and a chain of directories
\* that goes past the depth cap: the large file next to the unreadable
\* directory is reported and the one inside it is not, the directory 10
\* levels below the home directory was read and the one below it was not.
C26_Witness ==
  \E i \in Calls :
    /\ FinderRuns(i) /\ ~hist[i].threw
    /\ hist[i].pre = fs
    /\ LET H == Canon(osType, HomeDirectory(osType))
           R == ReadSet(ReadsFrom(fs, H))
       IN /\ \E l \in DOMAIN fs : fs[l].kind = "link" /\ ParentOf(l) \in R
          /\ \E d \in R :
               /\ ~fs[d].readable
               /\ \E p \in FilesOf(fs) :
                    /\ ParentOf(p) = d /\ fs[p].size >= config.largeFileThreshold
                    /\ p \notin Reported(i)
               /\ \E e \in R, q \in FilesOf(fs) :
                    /\ e # d /\ ParentOf(e) = ParentOf(d)
                    /\ ParentOf(q) = e /\ q \in Reported(i)
          /\ \E d \in R : LevelsBelow(d, H) = MaxDepth
          /\ \E d \in DirectoriesOf(fs) \ R :
               /\ LevelsBelow(d, H) = MaxDepth + 1
               /\ ParentOf(d) \in R

\* A path nothing lies at.
VanishedPath == <<"vanished", Dot, "tmp">>

\* The paths deleteFile can be handed: those of the entries of f, as the
\* platform writes them, and one that no longer exists.
DeletePaths(f) == {Native(p) : p \in DOMAIN f} \cup {VanishedPath}

\* C27: on a dry run deleteFile checks neither that the path exists nor
\* that it can be written: for every path, one that no longer exists or
\* cannot be written or unlinked included, it answers deleted = true with
\* the size stat reports, 0 when stat fails, records no error, raises
\* nothing and leaves the filesystem as it is, and the loop that called it
\* counts the entry and its size.  Every deleteFile call of a dry-run task
\* has answered so, and a task that reports the counts of its loops (the
\* trash task does on macOS only) has counted each of them.
C27_DryRunDeleteFile ==
  dryRun =>
    /\ \A path \in DeletePaths(fs) :
         LET p == Canon(osType, path)
         IN DeleteFile(fs, osType, dryRun, path)
              = [deleted |-> TRUE,
                 size |-> IF p \in DOMAIN fs /\ fs[p].readable THEN fs[p].size ELSE 0,
                 fs |-> fs, errors |-> <<>>, raised |-> FALSE]
    /\ \A path \in DeletePaths(fs) :
         /\ CountDeleteFile(NewAcc(fs), osType, dryRun, path).filesDeleted = 1
         /\ CountDeleteFile(NewAcc(fs), osType, dryRun, path).spaceSaved
              = GetFileSize(fs, osType, path)
         /\ CountDeleteFile(NewAcc(fs), osType, dryRun, path).errors = <<>>
    /\ \A i \in LastCall :
         /\ \A n \in 1..Len(hist[i].log) :
              /\ hist[i].log[n].deleted
              /\ hist[i].log[n].errors = <<>>
              /\ ~hist[i].log[n].raised
              /\ ~hist[i].log[n].gone
              /\ hist[i].log[n].size = hist[i].log[n].sizeBefore
         /\ (~hist[i].threw /\ (hist[i].task = "trash" => osType = "macos")) =>
              /\ results[i].filesDeleted >= Len(hist[i].log)
              /\ results[i].spaceSaved
                   >= Total([n \in 1..Len(hist[i].log) |-> hist[i].log[n].size])
              /\ \A k \in 1..Len(results[i].errors) :
                   results[i].errors[k].what # "Failed to delete"

\* A dry-run task has counted a file that has no write access and a file
\* that cannot be stat'ed, the second with size 0, and has no error.
C27_Witness ==
  /\ dryRun
  /\ ~DeleteFile(fs, osType, FALSE, VanishedPath).deleted
  /\ \E i \in Calls :
       /\ ~hist[i].threw /\ results[i].errors = <<>>
       /\ results[i].filesDeleted >= 2
       /\ \E n \in 1..Len(hist[i].log) :
            hist[i].log[n].failure = "EACCES" /\ hist[i].log[n].deleted
       /\ \E n \in 1..Len(hist[i].log) :
            LET p == Canon(osType, hist[i].log[n].path)
            IN /\ ~hist[i].pre[p].readable /\ hist[i].pre[p].size > 0
               /\ hist[i].log[n].deleted /\ hist[i].log[n].size = 0

\* How many entries of the largeFiles list of call i name path p.
TimesReported(i, p) ==
  Cardinality({k \in 1..Len(results[i].largeFiles) :
                 Canon(osType, results[i].largeFiles[k].path) = p})

\* C28: the largeFiles list find returns names each file at most once,
\* though the home directory is a search path together with directories
\* inside it.
C28_ReportedOnce ==
  \A i \in Calls :
    (hist[i].task = "largeFiles" /\ ~hist[i].threw) =>
      \A p \in FilesOf(hist[i].pre) : TimesReported(i, p) <= 1

\* A step of one of the six task operations of the manager.
TaskOperation ==
  \/ CleanTempFiles \/ CleanCacheFiles \/ CleanBrowserCaches
  \/ EmptyTrash \/ OrganizeDownloads \/ FindLargeFiles

\* The step appends one record to results and changes nothing before it.
AppendsOne == Len(results') = Len(results) + 1 /\ SubSeq(results', 1, Len(results)) = results

\* C29: results is empty on a new manager; every call of a task operation,
\* whether its cleaner returns or throws, appends exactly one record to it
\* and changes no record before it, and no other step changes it: after n
\* calls it holds n records.
C29_OneRecordPerCall ==
  /\ results = <<>> /\ hist = <<>>
  /\ [][ /\ TaskOperation => (AppendsOne /\ Len(hist') = Len(hist) + 1)
         /\ ~TaskOperation => (results' = results /\ hist' = hist)
         /\ Len(results') = Len(hist') ]_vars

\* runAllTasks has ended on a manager one of whose cleaners threw: results
\* holds six records, the failure record among them.
C29_Witness ==
  /\ pc = "summary"
  /\ Len(hist) = Len(ClaimedOrder)
  /\ Len(results) = Len(hist)
  /\ \E i \in Calls : hist[i].threw /\ results[i] = FailureResult(hist[i].task)
  /\ \E i \in Calls : ~hist[i].threw /\ results[i].errors = <<>>

\* The paths call i handed to deleteFile.
Submitted(i) == {Canon(osType, hist[i].log[n].path) : n \in 1..Len(hist[i].log)}

\* The files the search of a trash method finds below a trash folder of f.
FoundBelow(f, root) ==
  LET ff == FindFiles(f, config, FilesBelowPattern(root), <<>>)
  IN {Canon(osType, ff.found[k]) : k \in 1..Len(ff.found)}

\* The trash folders of the fixtures below an entry of getTrashPaths that
\* is no pattern: the entries the pathExists test of clean lets through.
NamedTrashFolders ==
  { root \in TrashFolders :
      \E k \in 1..Len(GetTrashPaths(osType)) :
        LET entry == GetTrashPaths(osType)[k]
        IN /\ ~Includes(entry, <<Star>>)
           /\ (root = Canon(osType, entry) \/ IsUnder(root, Canon(osType, entry))) }

\* The configuration with another age limit.
WithAgeLimit(days) == [config EXCEPT !.maxFileAge = days]

\* C30: the trash task applies no age limit: what it does is what it does
\* when maxFileAge is 0, and on macOS and Linux every file its search finds
\* below a trash folder that getTrashPaths names without a pattern is
\* handed to deleteFile, whatever its age; the
\* temp, cache and browser tasks hand a file to deleteFile only when
\* isFileOldEnough holds for it.
C30_TrashIgnoresAge ==
  \A i \in LastCall :
    ~hist[i].threw =>
      /\ hist[i].task = "trash" =>
           /\ TrashClean(hist[i].pre, osType, WithAgeLimit(0), dryRun).log = hist[i].log
           /\ TrashClean(hist[i].pre, osType, WithAgeLimit(0), dryRun).fs = hist[i].post
           /\ osType # "windows" =>
                \A root \in NamedTrashFolders :
                  root \in DOMAIN hist[i].pre =>
                    FoundBelow(hist[i].pre, root) \subseteq Submitted(i)
      /\ hist[i].task \in AgeTasks =>
           \A n \in 1..Len(hist[i].log) :
             IsFileOldEnough(hist[i].pre, osType, hist[i].log[n].path, config.maxFileAge)

\* With an age limit set, runAllTasks has run the temp task, which left a
\* file younger than the limit alone and handed an older one to
\* deleteFile, and the trash task, which handed files younger than the
\* limit to deleteFile.
C30_Witness ==
  /\ config.maxFileAge = AgeLimit
  /\ \E i \in Calls :
       /\ hist[i].task = "trash" /\ ~hist[i].threw
       /\ \E root \in NamedTrashFolders :
            \E p \in FoundBelow(hist[i].pre, root) :
              /\ ~IsFileOldEnough(hist[i].pre, osType, p, config.maxFileAge)
              /\ p \in Submitted(i)
  /\ \E j \in Calls :
       /\ hist[j].task = "temp" /\ ~hist[j].threw
       /\ Submitted(j) # {}
       /\ \E p \in FilesOf(hist[j].pre) :
            /\ IsChild(p, TempRoot)
            /\ ~IsFileOldEnough(hist[j].pre, osType, p, config.maxFileAge)
            /\ p \notin Submitted(j)

====
